---- MODULE Spec2Model ----
(***************************************************************************)
(* RSS feed aggregator (fcps-rss/rss-feed).                                *)
(*                                                                         *)
(* Four build scripts share one pipeline and differ in parameters:         *)
(*   "rss"   scripts/build-rss.js               (parallel fetch, strict)   *)
(*   "fcps"  scripts/build-fcps.js              (serialized, jittered)     *)
(*   "test"  scripts/build-test-individual.js   (serialized, per feed)     *)
(*   "indiv" scripts/build-individual-feeds.js  (serialized, per feed)     *)
(*                                                                         *)
(* JavaScript strings are TLA+ strings (ASCII only), handled with Len, \o, *)
(* SubSeq, Head and Tail.  JavaScript numbers are integers;                *)
(* NaN is a reserved integer outside every time value of the model.        *)
(***************************************************************************)
EXTENDS Integers, Sequences, FiniteSets, TLC

(***************************************************************************)
(* Strings                                                                 *)
(***************************************************************************)

Min(a, b) == IF a < b THEN a ELSE b

\* s.charAt(i - 1): the i-th character (1-based) as a one-character string
Chr(s, i) == SubSeq(s, i, i)

\* s.substring(from, to) for 0 <= from <= to (0-based, end exclusive,
\* the end clamped to the length)
Substring(s, from, to) == SubSeq(s, from + 1, Min(to, Len(s)))

\* s.substring(from)
SubstringFrom(s, from) == SubSeq(s, from + 1, Len(s))

\* the least element of a non-empty set of integers
Least(set) == CHOOSE i \in set : \A j \in set : i <= j

\* the greatest element of a non-empty set of integers
Greatest(set) == CHOOSE i \in set : \A j \in set : j <= i

LeastOr0(set) == IF set = {} THEN 0 ELSE Least(set)

GreatestOr0(set) == IF set = {} THEN 0 ELSE Greatest(set)

\* s.startsWith(pat, k - 1)
StartsAt(s, k, pat) ==
    /\ k >= 1
    /\ k + Len(pat) - 1 <= Len(s)
    /\ SubSeq(s, k, k + Len(pat) - 1) = pat

\* s.indexOf(pat, from) + 1, or 0 when pat does not occur at or after the
\* 0-based position from
IndexOf(s, pat, from) ==
    LeastOr0({ i \in (from + 1)..(Len(s) - Len(pat) + 1) :
                   SubSeq(s, i, i + Len(pat) - 1) = pat })

\* the printable ASCII characters with codes 32..95 and 97..126, in order
\* (the backquote, code 96, cannot be written in a TLA+ string)
\* c.charCodeAt(0) of a one-character string, from its position in the
\* printable ASCII characters 32..95 or 97..126
Code(c) ==
    LET low == IndexOf(" !\"#$%&'()*+,-./0123456789:;<=>?@ABCDEFGHIJKLMNOPQRSTU"
                           \o "VWXYZ[\\]^_", c, 0)
    IN  IF low > 0 THEN 31 + low
        ELSE 96 + IndexOf("abcdefghijklmnopqrstuvwxyz{|}~", c, 0)

\* Buffer.from(s): the UTF-8 bytes of s (one byte per ASCII character)
BufferFrom(s) == [i \in 1..Len(s) |-> Code(Chr(s, i))]

B64(n) ==
    Chr("ABCDEFGHIJKLMNOPQRSTUVWXYZabcdefghijklmnopqrstuvwxyz0123456789+/",
        n + 1)

\* buf.toString('base64'): three bytes give four digits, a trailing group
\* of one or two bytes is padded with '='
RECURSIVE ToBase64(_)
ToBase64(bytes) ==
    IF Len(bytes) = 0 THEN ""
    ELSE IF Len(bytes) = 1 THEN
        B64(bytes[1] \div 4) \o B64((bytes[1] % 4) * 16) \o "=="
    ELSE IF Len(bytes) = 2 THEN
        B64(bytes[1] \div 4)
            \o B64((bytes[1] % 4) * 16 + bytes[2] \div 16)
            \o B64((bytes[2] % 16) * 4) \o "="
    ELSE
        B64(bytes[1] \div 4)
            \o B64((bytes[1] % 4) * 16 + bytes[2] \div 16)
            \o B64((bytes[2] % 16) * 4 + bytes[3] \div 64)
            \o B64(bytes[3] % 64)
            \o ToBase64(SubSeq(bytes, 4, Len(bytes)))

\* s repeated n times (by halves)
RECURSIVE Repeat(_, _)
Repeat(s, n) ==
    IF n <= 0 THEN ""
    ELSE IF n = 1 THEN s
    ELSE Repeat(s, n \div 2) \o Repeat(s, n - n \div 2)

\* parts[lo] \o ... \o parts[hi] (by halves)
RECURSIVE JoinRange(_, _, _)
JoinRange(parts, lo, hi) ==
    IF hi < lo THEN ""
    ELSE IF hi = lo THEN parts[lo]
    ELSE JoinRange(parts, lo, (lo + hi) \div 2)
             \o JoinRange(parts, (lo + hi) \div 2 + 1, hi)

\* parts.join('')
Join(parts) == JoinRange(parts, 1, Len(parts))

(***************************************************************************)
(* Build variants and their constants                                      *)
(***************************************************************************)

Variants == {"rss", "fcps", "test", "indiv"}

\* the variants that aggregate all feeds into pages
AggregateVariants == {"rss", "fcps"}

\* const ITEMS_PER_PAGE
ITEMS_PER_PAGE(v) == IF v = "rss" THEN 20 ELSE 15

\* const MAX_DESCRIPTION_LENGTH
MAX_DESCRIPTION_LENGTH(v) == IF v = "fcps" THEN 250 ELSE 300

\* Array.from(items).slice(0, cap): 50, 30, ITEMS_PER_FEED_PAGE = 15 and
\* ITEMS_PER_FEED_PAGE = 20
\* one item more than the script takes
ItemCapPlusOne(v) ==
    1 + (CASE v = "rss" -> 50
           [] v = "fcps" -> 30
           [] v = "test" -> 15
           [] OTHER -> 20)

ItemCap(v) ==
    CASE v = "rss" -> 50
      [] v = "fcps" -> 30
      [] v = "test" -> 15
      [] v = "indiv" -> 20

\* Math.random() * 86400000 ranges over [0, DAY_MS)
DAY_MS == 86400000

\* NaN: the time value of an unparseable date; no time value of the model
\* equals it
NaN == 0 - 2 ^ 30

(***************************************************************************)
(* sanitize-html, as configured by sanitizeConfig and { allowedTags: [] }  *)
(***************************************************************************)

allowedTags == {"p", "br", "strong", "b", "em", "i", "a", "ul", "ol", "li"}

\* allowedAttributes: { 'a': ['href', 'target'] }
allowedAttributes(tag) == IF tag = "a" THEN {"href", "target"} ELSE {}

allowedSchemes == {"http", "https", "mailto"}

\* sanitize-html drops these tags together with their text
nonTextTags == {"script", "style", "textarea", "option"}

Letters == "abcdefghijklmnopqrstuvwxyz"

IsLetter(c) == Len(c) = 1 /\ IndexOf(Letters, c, 0) > 0

IsNameChar(c) == Len(c) = 1 /\ IndexOf(Letters \o "0123456789", c, 0) > 0

\* the longest prefix of s made of name characters
RECURSIVE NamePrefix(_)
NamePrefix(s) ==
    IF Len(s) > 0 /\ IsNameChar(Head(s)) THEN Head(s) \o NamePrefix(Tail(s))
    ELSE ""

\* a character reference starts at position k of s: the references the
\* parser decodes (decodeEntities: true), of those the model's texts can hold
EntityAt(s, k) ==
    \E e \in {"&amp;", "&lt;", "&gt;", "&quot;"} : StartsAt(s, k, e)

\* position k lies inside a reference &quot;, behind its '&'
InsideQuot(s, k) ==
    \E j \in (k - 5)..(k - 1) : StartsAt(s, j, "&quot;")

\* escapeHtml(text, quote) of the decoded text, character by character of
\* the undecoded one: a reference comes out as it went in, except that &quot;
\* comes out as the bare quote where quote is false; a bare & < > becomes a
\* reference, and so does a bare quote where quote is true
EscapeChar(s, k, quote) ==
    CASE InsideQuot(s, k) /\ ~quote -> ""
      [] ~InsideQuot(s, k) /\ StartsAt(s, k, "&quot;") /\ ~quote -> "\""
      [] ~InsideQuot(s, k) /\ Chr(s, k) = "&" /\ ~EntityAt(s, k) -> "&amp;"
      [] Chr(s, k) = "<" -> "&lt;"
      [] Chr(s, k) = ">" -> "&gt;"
      [] Chr(s, k) = "\"" /\ quote -> "&quot;"
      [] OTHER -> Chr(s, k)

EscapeHtml(s, quote) ==
    Join([k \in 1..Len(s) |-> EscapeChar(s, k, quote)])

\* one attribute read: its name, then ="value" when that follows
\* (close: the position of the closing quote in rest, 0 when it is missing)
ReadValue(name, rest, close) ==
    IF Len(rest) >= 2 /\ SubSeq(rest, 1, 2) = "=\""
    THEN [attr |-> [name |-> name,
                    value |-> IF close = 0 THEN SubstringFrom(rest, 2)
                              ELSE SubSeq(rest, 3, close - 1)],
          after |-> IF close = 0 THEN "" ELSE SubstringFrom(rest, close)]
    ELSE [attr |-> [name |-> name, value |-> ""], after |-> rest]

\* the attributes written inside a tag: name="value" pairs separated by
\* blanks, as a sequence of [name, value] records
RECURSIVE ParseAttributes(_)
ReadAttribute(read) == <<read.attr>> \o ParseAttributes(read.after)

ReadName(s, name) ==
    IF name = "" THEN ParseAttributes(Tail(s))
    ELSE ReadAttribute(ReadValue(name, SubstringFrom(s, Len(name)),
                           IndexOf(SubstringFrom(s, Len(name)), "\"", 2)))

ParseAttributes(s) ==
    IF Len(s) = 0 THEN << >>
    ELSE IF Head(s) = " " \/ Head(s) = "/" THEN ParseAttributes(Tail(s))
    ELSE ReadName(s, NamePrefix(s))

\* naughtyHref: a URL with a scheme outside allowedSchemes is refused; a
\* URL without a scheme (relative) is kept
HasNaughtyScheme(value, colon) ==
    /\ colon > 1
    /\ IsLetter(Head(value))
    /\ NamePrefix(SubSeq(value, 1, colon - 1)) = SubSeq(value, 1, colon - 1)
    /\ SubSeq(value, 1, colon - 1) \notin allowedSchemes

NaughtyHref(value) == HasNaughtyScheme(value, IndexOf(value, ":", 0))

\* every allowed attribute kept, whatever the scheme of an href
KeepAttributeAnyHref(tag, a) == a.name \in allowedAttributes(tag)

KeepAttribute(tag, a) ==
    /\ a.name \in allowedAttributes(tag)
    /\ ~(a.name = "href" /\ NaughtyHref(a.value))

RECURSIVE WriteAttributes(_, _)
WriteAttributes(tag, attrs) ==
    IF Len(attrs) = 0 THEN ""
    ELSE (IF KeepAttribute(tag, Head(attrs))
          THEN " " \o Head(attrs).name \o "=\""
                   \o EscapeHtml(Head(attrs).value, TRUE) \o "\""
          ELSE "") \o WriteAttributes(tag, Tail(attrs))

\* an allowed tag written back: with its allowed attributes, <br> as <br />
WriteTag(closing, name, attributes) ==
    IF closing THEN "</" \o name \o ">"
    ELSE "<" \o name \o WriteAttributes(name, ParseAttributes(attributes))
             \o (IF name = "br" THEN " />" ELSE ">")

\* what of s is left to read behind a discarded tag that ends at position gt:
\* behind the end tag of a nonTextTag, nothing when that end tag is missing
AfterDiscarded(s, closing, name, gt, endTag) ==
    IF closing \/ name \notin nonTextTags THEN SubstringFrom(s, gt)
    ELSE IF endTag = 0 THEN ""
    ELSE SubstringFrom(s, endTag + Len(name) + 2)

\* sanitizeHtml(s, { allowedTags: allowed, ... }): text is escaped, a tag
\* outside allowed is discarded (a nonTextTag with its content), an allowed
\* tag is written back with its allowed attributes only
RECURSIVE sanitizeHtml(_, _)
\* s starts with '<'; name is the tag name read behind '<' or '</', gt the
\* position of the next '>' (0: none)
SanitizeTag(s, allowed, closing, name, gt) ==
    IF name = "" \/ ~IsLetter(Head(name)) THEN
        \* not a tag: the '<' is text
        "&lt;" \o sanitizeHtml(Tail(s), allowed)
    ELSE IF gt = 0 THEN
        \* a tag that never ends is dropped with the rest of the input
        ""
    ELSE IF name \in allowed THEN
        WriteTag(closing, name, SubSeq(s, 2 + Len(name), gt - 1))
            \o sanitizeHtml(SubstringFrom(s, gt), allowed)
    ELSE
        sanitizeHtml(AfterDiscarded(s, closing, name, gt,
                         IndexOf(s, "</" \o name \o ">", gt)), allowed)

IsClosingTag(s) == Len(s) >= 2 /\ Chr(s, 2) = "/"

\* the text in front of the next '<' (at position lt; 0: none) is escaped
SanitizeText(s, allowed, lt) ==
    IF lt = 0 THEN EscapeHtml(s, FALSE)
    ELSE EscapeHtml(SubSeq(s, 1, lt - 1), FALSE)
             \o sanitizeHtml(SubstringFrom(s, lt - 1), allowed)

sanitizeHtml(s, allowed) ==
    IF Len(s) = 0 THEN ""
    ELSE IF Head(s) # "<" THEN SanitizeText(s, allowed, IndexOf(s, "<", 0))
    ELSE
        SanitizeTag(s, allowed, IsClosingTag(s),
                    NamePrefix(SubstringFrom(s, IF IsClosingTag(s) THEN 2
                                                ELSE 1)),
                    IndexOf(s, ">", 0))

(***************************************************************************)
(* Item normalization (the map callback of fetchRSSFeed)                   *)
(***************************************************************************)

\* new Date(pubDate).getTime() for the date texts of the model; every other
\* text is an invalid date
DateTable ==
    << [text |-> "Wed, 31 Dec 1969 23:59:59 GMT", time |-> 0 - 1000],
       [text |-> "Thu, 01 Jan 1970 00:00:00 GMT", time |-> 0],
       [text |-> "Thu, 01 Jan 1970 00:00:01 GMT", time |-> 1000],
       [text |-> "Thu, 01 Jan 1970 00:00:02 GMT", time |-> 2000],
       [text |-> "Thu, 01 Jan 1970 00:00:03 GMT", time |-> 3000] >>

DateGetTime(pubDate) ==
    IF \E k \in 1..Len(DateTable) : DateTable[k].text = pubDate
    THEN DateTable[CHOOSE k \in 1..Len(DateTable) :
                       DateTable[k].text = pubDate].time
    ELSE NaN

\* description.replace(/<!\[CDATA\[(.*?)\]\]>/gs, '$1'): open is the position
\* of the first "<![CDATA[", close that of the first "]]>" behind it
RECURSIVE StripCDATA(_)
Unwrap(s, open, close) ==
    IF open = 0 \/ close = 0 THEN s
    ELSE SubSeq(s, 1, open - 1) \o SubSeq(s, open + 9, close - 1)
             \o StripCDATA(SubstringFrom(s, close + 2))

CloseOf(s, open) == IF open = 0 THEN 0 ELSE IndexOf(s, "]]>", open + 8)

StripCDATA(s) ==
    Unwrap(s, IndexOf(s, "<![CDATA[", 0),
           CloseOf(s, IndexOf(s, "<![CDATA[", 0)))

\* the comparison with >= : a description of exactly max characters gets
\* the ellipsis
TruncateAtBudget(description, max) ==
    IF Len(description) >= max
    THEN Substring(description, 0, max) \o "..."
    ELSE description

\* if (description.length > MAX_DESCRIPTION_LENGTH)
\*   description = description.substring(0, MAX_DESCRIPTION_LENGTH) + '...'
Truncate(description, max) ==
    IF Len(description) > max
    THEN Substring(description, 0, max) \o "..."
    ELSE description

\* id: Buffer.from(guid [+ feedConfig.name]).toString('base64').substring(0, 16)
ItemId(v, guid, feedName) ==
    Substring(ToBase64(BufferFrom(IF v = "rss" THEN guid
                                  ELSE guid \o feedName)), 0, 16)

\* the fallback also for a date that does not parse
TimestampOrFallback(v, pubDate, now, random) ==
    IF pubDate # "" /\ DateGetTime(pubDate) # NaN THEN DateGetTime(pubDate)
    ELSE CASE v = "rss" -> 0
           [] v = "fcps" -> now - random
           [] OTHER -> now

\* the fallback of the per-feed scripts in every script: Date.now()
TimestampNow(v, pubDate, now, random) ==
    IF pubDate # "" THEN DateGetTime(pubDate) ELSE now

\* timestamp: pubDate ? new Date(pubDate).getTime() : <fallback>; random is
\* the value of Math.random() * 86400000
Timestamp(v, pubDate, now, random) ==
    IF pubDate # "" THEN DateGetTime(pubDate)
    ELSE CASE v = "rss" -> 0
           [] v = "fcps" -> now - random
           [] OTHER -> now

\* a || b without the fallback
OrFirst(a, b) == a

\* a || b on strings: the empty string is falsy
Or(a, b) == IF a # "" THEN a ELSE b

\* item.timestamp > 0 (false for NaN)
GreaterThanZero(t) == t # NaN /\ t > 0

\* category (and feedSource) of a parsed item: the aggregate builds default
\* the category and record the channel link
FeedFields(v, feedConfig, feedLink) ==
    IF v \in AggregateVariants
    THEN [category |-> Or(feedConfig.category, "general"),
          feedSource |-> feedLink]
    ELSE [category |-> feedConfig.category]

\* the id derived from guid and pubDate
NormalizeItemIdWithDate(v, feedConfig, feedLink, item, now, random) ==
    [id |-> ItemId(v, Or(item.guid, Or(item.link, "#")) \o item.pubDate,
                   feedConfig.name),
     title |-> sanitizeHtml(Or(item.title, "No Title"), {}),
     link |-> Or(item.link, "#"),
     description |->
         Truncate(sanitizeHtml(StripCDATA(Or(item.description, "")),
                               allowedTags),
                  MAX_DESCRIPTION_LENGTH(v)),
     pubDate |-> Or(item.pubDate, ""),
     timestamp |-> Timestamp(v, Or(item.pubDate, ""), now, random),
     feedName |-> feedConfig.name]
        @@ FeedFields(v, feedConfig, feedLink)

\* one raw item element -> one parsed item.  A raw item holds the
\* textContent of its first title, link, description, pubDate and guid
\* children, "" for a missing child.
NormalizeItem(v, feedConfig, feedLink, item, now, random) ==
    [id |-> ItemId(v, Or(item.guid, Or(item.link, "#")), feedConfig.name),
     title |-> sanitizeHtml(Or(item.title, "No Title"), {}),
     link |-> Or(item.link, "#"),
     description |->
         Truncate(sanitizeHtml(StripCDATA(Or(item.description, "")),
                               allowedTags),
                  MAX_DESCRIPTION_LENGTH(v)),
     pubDate |-> Or(item.pubDate, ""),
     timestamp |-> Timestamp(v, Or(item.pubDate, ""), now, random),
     feedName |-> feedConfig.name]
        @@ FeedFields(v, feedConfig, feedLink)

(***************************************************************************)
(* createSlug                                                              *)
(***************************************************************************)

UpperCase == "ABCDEFGHIJKLMNOPQRSTUVWXYZ"

\* c.toLowerCase() of the character at position k
LowerChar(s, k) ==
    IF Chr(s, k) \in {"A", "B", "C", "D", "E", "F", "G", "H", "I", "J", "K", "L",
                      "M", "N", "O", "P", "Q", "R", "S", "T", "U", "V", "W", "X",
                      "Y", "Z"}
    THEN Chr(Letters, IndexOf(UpperCase, Chr(s, k), 0))
    ELSE Chr(s, k)

\* name.toLowerCase()
toLowerCase(s) == Join([k \in 1..Len(s) |-> LowerChar(s, k)])

\* \w : [A-Za-z0-9_]
IsWordChar(c) ==
    IndexOf(Letters \o UpperCase \o "0123456789_", c, 0) > 0

\* \s of the model: the blank and the line feed
IsSpace(c) == c \in {" ", "\n"}

\* .replace(/[^\w\s-]/g, '')
RemoveSpecial(s) ==
    Join([k \in 1..Len(s) |->
             IF IsWordChar(Chr(s, k)) \/ IsSpace(Chr(s, k)) \/ Chr(s, k) = "-"
             THEN Chr(s, k) ELSE ""])

\* .replace(/\s+/g, '-'): a maximal run of blanks becomes one hyphen: its
\* first blank is replaced, the others are dropped
SpacesToHyphens(s) ==
    Join([k \in 1..Len(s) |->
             IF ~IsSpace(Chr(s, k)) THEN Chr(s, k)
             ELSE IF k > 1 /\ IsSpace(Chr(s, k - 1)) THEN "" ELSE "-"])

\* .replace(/-+/g, '-')
CollapseHyphens(s) ==
    Join([k \in 1..Len(s) |->
             IF Chr(s, k) = "-" /\ k > 1 /\ Chr(s, k - 1) = "-" THEN ""
             ELSE Chr(s, k)])

\* String.prototype.trim takes no argument: .trim('-') removes leading and
\* trailing white space and nothing else
Trim(s) ==
    IF \A k \in 1..Len(s) : IsSpace(Chr(s, k)) THEN ""
    ELSE SubSeq(s, Least({ k \in 1..Len(s) : ~IsSpace(Chr(s, k)) }),
                Greatest({ k \in 1..Len(s) : ~IsSpace(Chr(s, k)) }))

createSlug(name) ==
    Trim(CollapseHyphens(SpacesToHyphens(RemoveSpecial(toLowerCase(name)))))

(***************************************************************************)
(* fetchRSSFeed                                                            *)
(***************************************************************************)

\* JSON null and a JSON string
Null == [type |-> "null"]

Str(m) == [type |-> "string", value |-> m]

\* What the network and the XML parser give for one request:
\*   [kind |-> "reject", message]         fetch() rejects: time-out, transport
\*   [kind |-> "status", status, statusText]            response.ok is false
\*   [kind |-> "body", wellFormed, fatal, parsererror, hasChannel, channel,
\*    items]                               response.ok, the text parsed:
\*        wellFormed   FALSE when the parser reports a fatal error (fatal is
\*                     its message); items are then the items it recovered
\*        parsererror  the document has an element named parsererror
\*        hasChannel, channel  the channel's title, description, link texts
\*        items        the raw item elements in document order

\* the object returned at the end of the try block
FeedResult(v, feedConfig, feedInfo, items) ==
    IF v \in AggregateVariants
    THEN [feedConfig |-> feedConfig, feedInfo |-> feedInfo, items |-> items]
    ELSE [feedConfig |-> feedConfig,
          feedInfo |-> feedInfo @@ [slug |-> createSlug(feedConfig.name),
                                    category |-> feedConfig.category],
          items |-> items,
          success |-> TRUE]

\* feedTitle, feedDescription, feedLink
FeedInfo(feedConfig, response) ==
    IF response.hasChannel
    THEN [title |-> Or(response.channel.title, feedConfig.name),
          description |-> response.channel.description,
          link |-> response.channel.link]
    ELSE [title |-> feedConfig.name, description |-> "", link |-> ""]

ValidItem(item) == GreaterThanZero(item.timestamp)

\* Array.from(items).slice(0, cap).map(...), then
\* parsedItems.filter(item => item.timestamp > 0)
ParsedItems(v, feedConfig, feedLink, items, now, random) ==
    SelectSeq([k \in 1..Len(items) |->
                  NormalizeItem(v, feedConfig, feedLink, items[k], now,
                                IF k \in DOMAIN random THEN random[k] ELSE 0)],
              ValidItem)

\* The body of the try block: [thrown |-> TRUE, message] when a statement
\* throws, [thrown |-> FALSE, value] with the returned object otherwise.
\* random[k] is Math.random() * 86400000 of item k.
TryFetch(v, feedConfig, response, now, random) ==
    IF response.kind = "reject" THEN
        [thrown |-> TRUE, message |-> response.message]
    ELSE IF response.kind = "status" THEN
        \* throw new Error(`HTTP ${response.status}: ${response.statusText}`)
        [thrown |-> TRUE,
         message |-> "HTTP " \o response.status \o ": " \o response.statusText]
    ELSE IF v = "rss" /\ ~response.wellFormed THEN
        \* new DOMParser() without errorHandler: a fatal error throws
        [thrown |-> TRUE, message |-> response.fatal]
    ELSE IF v = "rss" /\ response.parsererror THEN
        [thrown |-> TRUE, message |-> "XML parsing error"]
    ELSE
        [thrown |-> FALSE,
         value |-> FeedResult(v, feedConfig, FeedInfo(feedConfig, response),
                       ParsedItems(v, feedConfig,
                                   FeedInfo(feedConfig, response).link,
                                   Substring(response.items, 0, ItemCap(v)),
                                   now, random))]

\* The catch block: the object returned for a caught error
CatchFetch(v, feedConfig, message) ==
    IF v \in AggregateVariants
    THEN [feedConfig |-> feedConfig,
          feedInfo |-> [title |-> feedConfig.name, description |-> "",
                        link |-> ""],
          items |-> << >>,
          error |-> message]
    ELSE [feedConfig |-> feedConfig,
          feedInfo |-> [title |-> feedConfig.name,
                        description |-> IF v = "test"
                                        THEN "Feed temporarily unavailable"
                                        ELSE "",
                        link |-> "",
                        slug |-> createSlug(feedConfig.name),
                        category |-> feedConfig.category],
          items |-> << >>,
          error |-> message,
          success |-> FALSE]

\* try { ... } catch (error) { ... }: what the function returns
TryCatch(v, feedConfig, try) ==
    IF try.thrown THEN CatchFetch(v, feedConfig, try.message) ELSE try.value

\* a promise fulfilled with value
Fulfilled(value) == [state |-> "fulfilled", value |-> value]

\* a rejected promise
Rejected(reason) == [state |-> "rejected", reason |-> reason]

\* fetchRSSFeed without its try/catch: a throw rejects the promise
fetchRSSFeedUncaught(v, feedConfig, response, now, random) ==
    IF TryFetch(v, feedConfig, response, now, random).thrown
    THEN Rejected(TryFetch(v, feedConfig, response, now, random).message)
    ELSE Fulfilled(TryFetch(v, feedConfig, response, now, random).value)

\* The promise fetchRSSFeed returns, once settled: the whole body is inside
\* try, so every throw is caught and the promise is fulfilled
fetchRSSFeed(v, feedConfig, response, now, random) ==
    Fulfilled(TryCatch(v, feedConfig,
                       TryFetch(v, feedConfig, response, now, random)))

\* the error looked up on the feed descriptor instead of on the result
ErrorOrNullOfConfig(result) ==
    IF "error" \in DOMAIN result.feedConfig /\ result.feedConfig.error # ""
    THEN Str(result.feedConfig.error) ELSE Null

\* result.error || null
ErrorOrNull(result) ==
    IF "error" \in DOMAIN result /\ result.error # ""
    THEN Str(result.error) ELSE Null

(***************************************************************************)
(* Inputs of the model                                                     *)
(***************************************************************************)

\* the longest feed list (config/feeds.json)
MaxFeeds == 2

\* the item counts of the two long documents
LongLen == 25

MidLen == 15

\* the clock: Date.now() lies well after the first day of 1970
ClockStart == 2 * DAY_MS

\* the values Math.random() * 86400000 takes in the model
RandomValues == {0, DAY_MS - 1}

FeedConfigs ==
    << [name |-> "Aldrin Elementary School",
        url |-> "https://a.example/feed.rss", category |-> "elementary"],
       [name |-> "Annandale High School",
        url |-> "https://b.example/feed.rss", category |-> "high"],
       [name |-> "FCPS District News",
        url |-> "https://c.example/feed.rss", category |-> ""],
       [name |-> "Aldrin Elementary School",
        url |-> "https://d.example/feed.rss", category |-> "elementary"],
       [name |-> "Tech & Science - Daily",
        url |-> "https://e.example/feed.rss", category |-> "high"] >>

Digits == "0123456789"

\* String(n) for an integer n >= 0
RECURSIVE Decimal(_)
Decimal(n) ==
    IF n < 10 THEN Chr(Digits, n + 1)
    ELSE Decimal(n \div 10) \o Chr(Digits, (n % 10) + 1)

RawItem(title, link, description, pubDate, guid) ==
    [title |-> title, link |-> link, description |-> description,
     pubDate |-> pubDate, guid |-> guid]

\* a short document: two items with the same date, one without a date, one
\* with an unparseable date, one dated at the epoch
SmallItems ==
    << RawItem("First <b>day</b>", "https://a.example/1",
               "<p>Welcome & hello</p><script>x()</script>",
               "Thu, 01 Jan 1970 00:00:02 GMT", "https://a.example/?p=1"),
       RawItem("Second", "https://a.example/2", "<![CDATA[Bus <i>routes</i>]]>",
               "Thu, 01 Jan 1970 00:00:02 GMT", ""),
       RawItem("", "", "", "", ""),
       RawItem("Fourth", "https://a.example/4", "Menu", "next Tuesday", "g-4"),
       RawItem("Fifth", "https://a.example/5", "Epoch",
               "Thu, 01 Jan 1970 00:00:00 GMT", "g-5") >>

\* a long document of n dated items; the dates repeat with period three
LongItems(n) ==
    [k \in 1..n |->
        RawItem("Item " \o Decimal(k),
                "https://l.example/" \o Decimal(k),
                "Text " \o Decimal(k),
                DateTable[3 + (k % 3)].text,
                "l-" \o Decimal(k))]

Channel(title, link) ==
    [title |-> title, description |-> "News", link |-> link]

Body(wellFormed, fatal, parsererror, hasChannel, channel, items) ==
    [kind |-> "body", wellFormed |-> wellFormed, fatal |-> fatal,
     parsererror |-> parsererror, hasChannel |-> hasChannel,
     channel |-> channel, items |-> items]

\* the requests that fail in transport or with a non-success status
FailureResponses ==
    { [kind |-> "reject",
       message |-> "network timeout at: https://a.example/feed.rss"],
      [kind |-> "status", status |-> "500",
       statusText |-> "Internal Server Error"] }

\* a document the parser reports a fatal error for, one item recovered
MalformedBody ==
    Body(FALSE, "[xmldom fatalError] unclosed xml attribute", FALSE, TRUE,
         Channel("Broken", "https://m.example/"),
         << RawItem("Recovered", "https://m.example/1", "Half",
                    "Thu, 01 Jan 1970 00:00:03 GMT", "m-1") >>)

\* a well-formed document that holds an element named parsererror
ParserErrorBody ==
    Body(TRUE, "", TRUE, TRUE, Channel("Report", "https://p.example/"),
         << RawItem("Report", "https://p.example/1", "Status",
                    "Thu, 01 Jan 1970 00:00:01 GMT", "p-1") >>)

\* what a request of a build can give
Responses ==
    FailureResponses \cup
    { MalformedBody, ParserErrorBody,
      Body(TRUE, "", FALSE, TRUE, Channel("Quiet", "https://q.example/"), << >>),
      Body(TRUE, "", FALSE, TRUE, Channel("", "https://a.example/"),
           SmallItems),
      Body(TRUE, "", FALSE, FALSE, Channel("", ""), LongItems(MidLen)),
      Body(TRUE, "", FALSE, TRUE, Channel("Long", "https://l.example/"),
           LongItems(LongLen)) }

\* by how many items the longest document exceeds the cap of the script
CapExcess == 1

\* a well-formed document with more item elements than script v looks at
OverCapBody(v) ==
    Body(TRUE, "", FALSE, TRUE, Channel("Archive", "https://l.example/"),
         LongItems(ItemCap(v) + CapExcess))

\* the items of a response for which Math.random() is called
RandomPositions(v, response) ==
    IF v = "fcps" /\ response.kind = "body"
    THEN { k \in 1..Min(Len(response.items), ItemCap(v)) :
               response.items[k].pubDate = "" }
    ELSE {}

(***************************************************************************)
(* Aggregation, sorting, pagination                                        *)
(***************************************************************************)

\* the comparison the other way round: a.timestamp - b.timestamp
CompareItemsAscending(a, b) ==
    IF a.timestamp = NaN \/ b.timestamp = NaN THEN NaN
    ELSE a.timestamp - b.timestamp

\* (a, b) => b.timestamp - a.timestamp
CompareItems(a, b) ==
    IF a.timestamp = NaN \/ b.timestamp = NaN THEN NaN
    ELSE b.timestamp - a.timestamp

\* item k comes before item j in the sorted array: the comparison puts it
\* first, or the comparison gives 0 (or NaN) and it stood first
SortsBefore(items, k, j) ==
    \/ CompareItems(items[k], items[j]) # NaN
         /\ CompareItems(items[k], items[j]) < 0
    \/ /\ \/ CompareItems(items[k], items[j]) = NaN
          \/ CompareItems(items[k], items[j]) = 0
       /\ k < j

\* the index in the sorted array of item j
Rank(items, j) ==
    1 + Cardinality({ k \in 1..Len(items) : SortsBefore(items, k, j) })

Permute(items, rank) ==
    [r \in 1..Len(items) |-> items[CHOOSE j \in 1..Len(items) : rank[j] = r]]

\* items.sort((a, b) => b.timestamp - a.timestamp): Array.prototype.sort is
\* stable, so the result is fixed by the comparison and the former order.
\* (No item with a NaN timestamp reaches the sort.)
SortItems(items) ==
    Permute(items, [j \in 1..Len(items) |-> Rank(items, j)])

\* result.items.map(item => ({ ...item, feedInfo: result.feedInfo }))
WithFeedInfo(result) ==
    [k \in 1..Len(result.items) |->
        [feedInfo |-> result.feedInfo] @@ result.items[k]]

\* the feedSummary entry of one result
SummaryEntry(result, now) ==
    [name |-> result.feedConfig.name,
     category |-> result.feedConfig.category,
     itemCount |-> Len(result.items),
     error |-> ErrorOrNull(result),
     lastUpdated |-> now,
     feedInfo |-> result.feedInfo]

\* allItems with the items of the last feed first
RECURSIVE ConcatItemsLastFirst(_)
ConcatItemsLastFirst(results) ==
    IF Len(results) = 0 THEN << >>
    ELSE WithFeedInfo(results[Len(results)])
             \o ConcatItemsLastFirst(SubSeq(results, 1, Len(results) - 1))

\* feedResults.forEach(...): allItems in feed order
RECURSIVE ConcatItems(_)
ConcatItems(results) ==
    IF Len(results) = 0 THEN << >>
    ELSE ConcatItems(SubSeq(results, 1, Len(results) - 1))
             \o WithFeedInfo(results[Len(results)])

\* if (items.length > 0) successfulFeeds++
CountSuccessful(results) ==
    Cardinality({ k \in 1..Len(results) : Len(results[k].items) > 0 })

\* Math.floor(n / p)
CeilAsFloor(n, p) == n \div p

\* Math.max(1, Math.ceil(n / p))
CeilAtLeastOne(n, p) ==
    IF (n + p - 1) \div p < 1 THEN 1 ELSE (n + p - 1) \div p

\* Math.ceil(n / p)
Ceil(n, p) == (n + p - 1) \div p

IsFirstOccurrence(seq, j) == \A k \in 1..(j - 1) : seq[k] # seq[j]

\* the elements of seq at the positions listed in positions
Pick(seq, positions) == [k \in 1..Len(positions) |-> seq[positions[k]]]

\* [...new Set(seq)]: the distinct values in order of first occurrence
Unique(seq) ==
    Pick(seq, SelectSeq([j \in 1..Len(seq) |-> j],
                        LAMBDA j : IsFirstOccurrence(seq, j)))

\* the slice started one item late: start = i * itemsPerPage + 1
PageDataSliceLate(items, totalPages, itemsPerPage, i) ==
    [page |-> i + 1,
     totalPages |-> totalPages,
     totalItems |-> Len(items),
     itemsPerPage |-> itemsPerPage,
     items |-> Substring(items, i * itemsPerPage + 1,
                         i * itemsPerPage + itemsPerPage),
     hasNext |-> i < totalPages - 1,
     hasPrev |-> i > 0]

\* hasNext compared with the loop index instead of the page number:
\* hasNext = i < totalPages
PageDataHasNextLate(items, totalPages, itemsPerPage, i) ==
    [page |-> i + 1,
     totalPages |-> totalPages,
     totalItems |-> Len(items),
     itemsPerPage |-> itemsPerPage,
     items |-> Substring(items, i * itemsPerPage,
                         i * itemsPerPage + itemsPerPage),
     hasNext |-> i < totalPages,
     hasPrev |-> i > 0]

\* the pageData of loop index i (0-based): start = i * itemsPerPage,
\* end = start + itemsPerPage
PageData(items, totalPages, itemsPerPage, i) ==
    [page |-> i + 1,
     totalPages |-> totalPages,
     totalItems |-> Len(items),
     itemsPerPage |-> itemsPerPage,
     items |-> Substring(items, i * itemsPerPage,
                         i * itemsPerPage + itemsPerPage),
     hasNext |-> i < totalPages - 1,
     hasPrev |-> i > 0]

PageFileName(page) == "page-" \o Decimal(page) \o ".json"

\* fs.writeFileSync(path.join(dir, name), content)
WriteFile(dir, name, content) == (name :> content) @@ dir

(***************************************************************************)
(* The aggregate builds: buildStaticSite ("rss") and buildFCPSSite ("fcps")*)
(***************************************************************************)

VARIABLES
    variant,          \* which script runs
    feeds,            \* RSS_FEEDS / FCPS_FEEDS
    now,              \* Date.now()
    pc,               \* where the build function stands
    promises,         \* per feed: the state of its fetchRSSFeed promise
    responses,        \* per feed: what the network gave its request
    feedResults,
    i,                \* the loop index of the fetch loop, then of the page loop
    allItems,
    feedSummary,
    successfulFeeds,
    totalPages,
    pages,            \* the pageData objects written by this build, in order
    dataDir,          \* dist/data: file name -> content
    exitCode,         \* process.exit code; -1 while the process runs
    logged            \* the error the catch of the build function logged

\* the calls of fetchRSSFeed and of its item callback looked at one by one
VARIABLES
    fetchIn,          \* the arguments and environment of the current call
    fetchOut,         \* the promise it returned, once settled
    itemIn,           \* the item element the callback is called with
    itemOut,          \* the parsed item the callback returned
    itemPrev,         \* the callback's previous call: its itemIn and itemOut
    slugIn,           \* the name createSlug is called with
    slugOut           \* the slug it returned

\* the page of the aggregate site in a browser: the fields of the app object
\* and what the document shows
VARIABLES
    currentPage,      \* this.currentPage
    metadata,         \* this.metadata; None stands for null
    currentCategory,  \* this.currentCategory
    searchQuery,      \* this.searchQuery
    searchTimeout,    \* FCPSFeedApp: the timer of the search input is set
    requests,         \* the fetches in flight, in the order of their start
    rssItems,         \* the rendered list and the page it was taken from
    pagination,       \* what updatePagination showed last
    errorText         \* the message in the error box; "" when it is hidden

\* the FeedManager object of manage-feeds.js
VARIABLES
    managerFeeds,     \* this.feeds
    managerCall       \* the last call: its arguments, the list before, the result

callVars == <<fetchIn, fetchOut, itemIn, itemOut, itemPrev, slugIn, slugOut>>

clientVars ==
    <<currentPage, metadata, currentCategory, searchQuery, searchTimeout,
      requests, rssItems, pagination, errorText>>

\* the variables the build functions do not touch
others == <<callVars, clientVars, managerFeeds, managerCall>>

None == [none |-> TRUE]

InitOthers(lists) ==
    /\ fetchIn = None
    /\ fetchOut = None
    /\ itemIn = None
    /\ itemOut = None
    /\ itemPrev = None
    /\ slugIn = None
    /\ slugOut = None
    /\ currentPage = 1
    /\ metadata = None
    /\ currentCategory = "all"
    /\ searchQuery = ""
    /\ searchTimeout = FALSE
    /\ requests = << >>
    /\ rssItems = None
    /\ pagination = None
    /\ errorText = ""
    /\ managerFeeds \in lists
    /\ managerCall = None

buildVars ==
    <<variant, feeds, now, pc, promises, responses, feedResults, i, allItems,
      feedSummary, successfulFeeds, totalPages, pages, dataDir, exitCode,
      logged>>

Idle == [state |-> "idle"]

Pending == [state |-> "pending"]

NoResponse == [kind |-> "none"]

\* the errors of fs.writeFileSync, fs.mkdirSync and fs.copyFileSync
FsErrors == {"ENOSPC: no space left on device, write"}

InitBuild(variants, configs) ==
    /\ variant \in variants
    /\ \E n \in 0..MaxFeeds : feeds = SubSeq(configs, 1, n)
    /\ now = ClockStart
    /\ pc = "start"
    /\ promises = [k \in 1..Len(feeds) |-> Idle]
    /\ responses = [k \in 1..Len(feeds) |-> NoResponse]
    /\ feedResults = << >>
    /\ i = 0
    /\ allItems = << >>
    /\ feedSummary = << >>
    /\ successfulFeeds = 0
    /\ totalPages = 0
    /\ pages = << >>
    /\ dataDir = << >>
    /\ exitCode = 0 - 1
    /\ logged = ""
    /\ InitOthers({ << >> })

\* the catch logs the error and the build carries on
LogAndContinue(error) ==
    /\ pc' = pc
    /\ exitCode' = exitCode
    /\ logged' = error

\* catch (error) { console.error('...failed:', error); process.exit(1); }
Exit1(error) ==
    /\ pc' = "exited"
    /\ exitCode' = 1
    /\ logged' = error

\* every script starts every request at once
StartBuildAllAtOnce ==
    /\ pc = "start"
    /\ IF Len(feeds) > 0
       THEN /\ promises' = [k \in 1..Len(feeds) |-> Pending]
            /\ pc' = "fetching"
       ELSE /\ promises' = promises
            /\ pc' = "collected"
    /\ UNCHANGED <<others, variant, feeds, now, responses, feedResults, i, allItems,
                   feedSummary, successfulFeeds, totalPages, pages, dataDir,
                   exitCode, logged>>

\* ensureDistDirectory(); then "rss" starts every request at once
\* (RSS_FEEDS.map(fetchRSSFeed)) and "fcps" enters its loop with request 0
StartBuild ==
    /\ pc = "start"
    /\ IF variant = "rss"
       THEN /\ promises' = [k \in 1..Len(feeds) |-> Pending]
            /\ pc' = "fetching"
       ELSE IF Len(feeds) > 0
       THEN /\ promises' = [promises EXCEPT ![1] = Pending]
            /\ pc' = "fetching"
       ELSE /\ promises' = promises
            /\ pc' = "collected"
    /\ UNCHANGED <<others, variant, feeds, now, responses, feedResults, i, allItems,
                   feedSummary, successfulFeeds, totalPages, pages, dataDir,
                   exitCode, logged>>

\* the request of feed k comes back and its fetchRSSFeed promise settles
Settle(k, response, random) ==
    /\ promises' = [promises EXCEPT
                      ![k] = fetchRSSFeed(variant, feeds[k], response, now,
                                          random)]
    /\ responses' = [responses EXCEPT ![k] = response]

\* "rss": one of the concurrent requests completes
CompleteRequest(k) ==
    /\ variant = "rss"
    /\ pc = "fetching"
    /\ promises[k] = Pending
    /\ \E response \in Responses : Settle(k, response, << >>)
    /\ UNCHANGED <<others, variant, feeds, now, pc, feedResults, i, allItems,
                   feedSummary, successfulFeeds, totalPages, pages, dataDir,
                   exitCode, logged>>

\* the reason Promise.all rejects with: that of the first rejected promise
RejectionReason(ps) ==
    ps[Least({ k \in 1..Len(ps) : ps[k].state = "rejected" })].reason

\* the build goes on as soon as one request has completed, with the results
\* that are there
PromiseAllEarly ==
    /\ variant = "rss"
    /\ pc = "fetching"
    /\ \E k \in 1..Len(feeds) : promises[k].state = "fulfilled"
    /\ feedResults' = [k \in 1..Cardinality({ n \in 1..Len(feeds) :
                                    promises[n].state = "fulfilled" }) |->
                          promises[Least({ n \in 1..Len(feeds) :
                                    promises[n].state = "fulfilled" })].value]
    /\ pc' = "collected"
    /\ UNCHANGED <<exitCode, logged>>
    /\ UNCHANGED <<others, variant, feeds, now, promises, responses, i, allItems,
                   feedSummary, successfulFeeds, totalPages, pages, dataDir>>

\* "rss": await Promise.all(feedPromises)
PromiseAll ==
    /\ variant = "rss"
    /\ pc = "fetching"
    /\ \A k \in 1..Len(feeds) : promises[k].state # "pending"
    /\ IF \A k \in 1..Len(feeds) : promises[k].state = "fulfilled"
       THEN /\ feedResults' = [k \in 1..Len(feeds) |-> promises[k].value]
            /\ pc' = "collected"
            /\ UNCHANGED <<exitCode, logged>>
       ELSE /\ Exit1(RejectionReason(promises))
            /\ UNCHANGED feedResults
    /\ UNCHANGED <<others, variant, feeds, now, promises, responses, i, allItems,
                   feedSummary, successfulFeeds, totalPages, pages, dataDir>>

\* "fcps" and the per-feed scripts:
\* const result = await fetchRSSFeed(FCPS_FEEDS[i], ...);
\* feedResults.push(result); then the delay unless this was the last feed
FetchNext ==
    /\ variant # "rss"
    /\ pc = "fetching"
    /\ promises[i + 1] = Pending
    /\ \E response \in Responses :
         \E random \in [RandomPositions(variant, response) -> RandomValues] :
            Settle(i + 1, response, random)
    /\ IF promises'[i + 1].state = "fulfilled"
       THEN /\ feedResults' = Append(feedResults, promises'[i + 1].value)
            /\ pc' = IF i < Len(feeds) - 1 THEN "delay" ELSE "collected"
            /\ UNCHANGED <<exitCode, logged>>
       ELSE /\ Exit1(promises'[i + 1].reason)
            /\ UNCHANGED feedResults
    /\ UNCHANGED <<others, variant, feeds, now, i, allItems, feedSummary,
                   successfulFeeds, totalPages, pages, dataDir>>

\* await new Promise(resolve => setTimeout(resolve, 500)); i++
\* (1000 ms in build-individual-test.js)
DelayElapsed ==
    /\ pc = "delay"
    /\ i' = i + 1
    /\ promises' = [promises EXCEPT ![i + 2] = Pending]
    /\ pc' = "fetching"
    /\ UNCHANGED <<others, variant, feeds, now, responses, feedResults, allItems,
                   feedSummary, successfulFeeds, totalPages, pages, dataDir,
                   exitCode, logged>>

\* feedResults.forEach(...); allItems.sort(...); totalPages = Math.ceil(...)
Aggregate ==
    /\ variant \in AggregateVariants
    /\ pc = "collected"
    /\ allItems' = SortItems(ConcatItems(feedResults))
    /\ feedSummary' = [k \in 1..Len(feedResults) |->
                          SummaryEntry(feedResults[k], now)]
    /\ successfulFeeds' = IF variant = "fcps"
                          THEN CountSuccessful(feedResults) ELSE 0
    /\ totalPages' = Ceil(Len(allItems'), ITEMS_PER_PAGE(variant))
    /\ i' = 0
    /\ pc' = "paging"
    /\ UNCHANGED <<others, variant, feeds, now, promises, responses, feedResults,
                   pages, dataDir, exitCode, logged>>

\* one iteration of for (let i = 0; i < totalPages; i++)
WritePage ==
    /\ pc = "paging"
    /\ i < totalPages
    /\ pages' = Append(pages, PageData(allItems, totalPages,
                                       ITEMS_PER_PAGE(variant), i))
    /\ dataDir' = WriteFile(dataDir, PageFileName(i + 1), pages'[Len(pages')])
    /\ i' = i + 1
    /\ UNCHANGED <<others, variant, feeds, now, pc, promises, responses, feedResults,
                   allItems, feedSummary, successfulFeeds, totalPages,
                   exitCode, logged>>

\* the metadata object of the build ("fcps" adds successfulFeeds)
Metadata ==
    [totalFeeds |-> Len(feeds),
     totalItems |-> Len(allItems),
     totalPages |-> totalPages,
     itemsPerPage |-> ITEMS_PER_PAGE(variant),
     lastUpdated |-> now,
     categories |-> Unique([k \in 1..Len(allItems) |-> allItems[k].category]),
     feeds |-> feedSummary]
        @@ (IF variant = "fcps"
            THEN [successfulFeeds |-> successfulFeeds]
            ELSE [totalFeeds |-> Len(feeds)])

\* after the page loop: fs.writeFileSync(metadata.json)
WriteMetadata ==
    /\ pc = "paging"
    /\ i >= totalPages
    /\ dataDir' = WriteFile(dataDir, "metadata.json", Metadata)
    /\ pc' = "assets"
    /\ UNCHANGED <<others, variant, feeds, now, promises, responses, feedResults, i,
                   allItems, feedSummary, successfulFeeds, totalPages, pages,
                   exitCode, logged>>

\* copy styles.css, write index.html and js/app.js, log the completion; the
\* process then ends with exit code 0
CopyAssets ==
    /\ pc = "assets"
    /\ pc' = "done"
    /\ exitCode' = 0
    /\ UNCHANGED <<others, variant, feeds, now, promises, responses, feedResults, i,
                   allItems, feedSummary, successfulFeeds, totalPages, pages,
                   dataDir, logged>>

\* a writeFileSync, mkdirSync or copyFileSync throws: the catch of the
\* build function logs the error and calls process.exit(1)
FsError ==
    /\ pc \in {"paging", "assets"}
    /\ \E error \in FsErrors : Exit1(error)
    /\ UNCHANGED <<others, variant, feeds, now, promises, responses, feedResults, i,
                   allItems, feedSummary, successfulFeeds, totalPages, pages,
                   dataDir>>

vars == <<buildVars, others>>

\* a run of buildStaticSite or of buildFCPSSite
Spec ==
    /\ InitBuild(AggregateVariants, FeedConfigs)
    /\ [][\/ StartBuild
          \/ \E k \in 1..Len(feeds) : CompleteRequest(k)
          \/ PromiseAll
          \/ FetchNext
          \/ DelayElapsed
          \/ Aggregate
          \/ WritePage
          \/ WriteMetadata
          \/ CopyAssets
          \/ FsError]_vars

(***************************************************************************)
(* fetchRSSFeed and its item callback, call by call, in each of the four   *)
(* scripts                                                                 *)
(***************************************************************************)

\* no build function runs; variant is the script whose functions are called
\* and lists the contents config/feeds.json can have
NoBuild(variants, lists) ==
    /\ variant \in variants
    /\ feeds = << >>
    /\ now = ClockStart
    /\ pc = "start"
    /\ promises = << >>
    /\ responses = << >>
    /\ feedResults = << >>
    /\ i = 0
    /\ allItems = << >>
    /\ feedSummary = << >>
    /\ successfulFeeds = 0
    /\ totalPages = 0
    /\ pages = << >>
    /\ dataDir = << >>
    /\ exitCode = 0 - 1
    /\ logged = ""
    /\ InitOthers(lists)

\* the feeds of the calls: two of them share their name
CallConfigs == {FeedConfigs[1], FeedConfigs[3], FeedConfigs[4]}

\* fetchRSSFeed(feedConfig) is called; the network will answer with response
Request ==
    /\ fetchIn = None \/ fetchOut # None
    /\ \E feedConfig \in CallConfigs,
          response \in Responses \cup {OverCapBody(variant)}, t \in {ClockStart, ClockStart + 1000} :
         \E random \in [RandomPositions(variant, response) -> RandomValues] :
            fetchIn' = [feedConfig |-> feedConfig, response |-> response,
                        now |-> t, random |-> random]
    /\ fetchOut' = None
    /\ UNCHANGED <<buildVars, clientVars, managerFeeds, managerCall,
                   slugIn, slugOut, itemIn, itemOut, itemPrev>>

\* the promise of the call settles
Return ==
    /\ fetchIn # None
    /\ fetchOut = None
    /\ fetchOut' = fetchRSSFeed(variant, fetchIn.feedConfig, fetchIn.response,
                                fetchIn.now, fetchIn.random)
    /\ UNCHANGED <<buildVars, clientVars, managerFeeds, managerCall,
                   slugIn, slugOut, fetchIn, itemIn, itemOut, itemPrev>>

\* the calls of fetchRSSFeed
SpecFetch == NoBuild(Variants, { << >> }) /\ [][Request \/ Return]_vars

\* how far around MAX_DESCRIPTION_LENGTH the description lengths range
LengthSlack == 1

ItemLink == "https://a.example/1"

\* the item elements of the calls: descriptions of the lengths around the
\* budget, plain, with a bare '&', with discarded and allowed tags and inside
\* CDATA; guid and link present and absent; pubDate valid, absent, unparseable
ItemInputs(v) ==
    { RawItem("Plain", ItemLink, Repeat("x", n),
              "Thu, 01 Jan 1970 00:00:02 GMT", "g-1") :
        n \in (MAX_DESCRIPTION_LENGTH(v) - LengthSlack)
                  ..(MAX_DESCRIPTION_LENGTH(v) + LengthSlack) }
    \cup
    { RawItem("", "", "", "", ""),
      RawItem("Entity", ItemLink,
              Repeat("x", MAX_DESCRIPTION_LENGTH(v) - 1) \o "&", "", ""),
      RawItem("Tags <i>t</i>", "https://a.example/2",
              "<script>s()</script><p>"
                  \o Repeat("y", MAX_DESCRIPTION_LENGTH(v) - 7) \o "</p>",
              "next Tuesday", "g-1"),
      RawItem("CDATA", "https://a.example/3",
              "<![CDATA[" \o Repeat("z", MAX_DESCRIPTION_LENGTH(v) + 1)
                  \o "]]>",
              "Thu, 01 Jan 1970 00:00:03 GMT", ItemLink) }

\* the map callback is called with an item element; the call before it is
\* kept in itemPrev
NextItem ==
    /\ itemIn = None \/ itemOut # None
    /\ \E feedConfig \in CallConfigs, item \in ItemInputs(variant),
          random \in RandomValues :
            /\ item.pubDate # "" \/ variant # "fcps" => random = 0
            /\ itemIn' = [feedConfig |-> feedConfig,
                          feedLink |-> "https://a.example/",
                          item |-> item, random |-> random]
    /\ itemPrev' = IF itemOut # None
                   THEN [in |-> itemIn, out |-> itemOut] ELSE itemPrev
    /\ itemOut' = None
    /\ UNCHANGED <<buildVars, clientVars, managerFeeds, managerCall,
                   slugIn, slugOut, fetchIn, fetchOut>>

\* the callback returns the parsed item
Normalize ==
    /\ itemIn # None
    /\ itemOut = None
    /\ itemOut' = NormalizeItem(variant, itemIn.feedConfig, itemIn.feedLink,
                                itemIn.item, now, itemIn.random)
    /\ UNCHANGED <<buildVars, clientVars, managerFeeds, managerCall,
                   slugIn, slugOut, fetchIn, fetchOut, itemIn, itemPrev>>

\* the calls of the item callback
SpecItem == NoBuild(Variants, { << >> }) /\ [][NextItem \/ Normalize]_vars

(***************************************************************************)
(* Properties of the aggregate builds                                      *)
(***************************************************************************)

\* the build has collected and sorted the items
Aggregated == pc \in {"paging", "assets", "done"}

MetadataWritten == "metadata.json" \in DOMAIN dataDir

MetadataFile == dataDir["metadata.json"]

\* the request of feed k failed: non-2xx status, time-out or transport error
RequestFailed(k) == responses[k].kind \in {"reject", "status"}

\* the parser reported a fatal error for the document of feed k
ParseFailed(k) == responses[k].kind = "body" /\ ~responses[k].wellFormed

\* build-rss.js refuses the document of feed k
RefusedByRss(k) ==
    /\ variant = "rss"
    /\ responses[k].kind = "body"
    /\ ~responses[k].wellFormed \/ responses[k].parsererror

\* a raw item whose timestamp will be valid in script v
ValidRaw(v, raw) ==
    IF raw.pubDate = "" THEN v # "rss"
    ELSE GreaterThanZero(DateGetTime(raw.pubDate))

\* the number of valid items among the first ItemCap(v) of a document
ValidCount(v, response) ==
    Cardinality({ n \in 1..Min(Len(response.items), ItemCap(v)) :
                      ValidRaw(v, response.items[n]) })

Occurrences(seq, x) == Cardinality({ n \in 1..Len(seq) : seq[n] = x })

IsPermutation(a, b) ==
    /\ Len(a) = Len(b)
    /\ \A n \in 1..Len(a) : Occurrences(a, a[n]) = Occurrences(b, a[n])

\* the items of the feeds that did not fail, in feed order
ItemsOfOthers(Failed(_)) ==
    ConcatItems([k \in 1..Len(feedResults) |->
                    IF Failed(k) THEN [feedResults[k] EXCEPT !.items = << >>]
                    ELSE feedResults[k]])

\* Partial-failure isolation for the notion of failure Failed: no failure of
\* a feed leads to the fatal exit; the aggregate is a rearrangement of the
\* items of the feeds that did not fail, all valid items of their documents;
\* the metadata names an error exactly for the failed feeds
Isolation(Failed(_)) ==
    /\ pc = "exited" => logged \in FsErrors
    /\ Aggregated =>
         /\ IsPermutation(allItems, ItemsOfOthers(Failed))
         /\ \A k \in 1..Len(feeds) :
              ~Failed(k) =>
                  Len(feedResults[k].items) = ValidCount(variant, responses[k])
    /\ MetadataWritten =>
         /\ Len(MetadataFile.feeds) = Len(feeds)
         /\ \A k \in 1..Len(feeds) :
              IF Failed(k)
              THEN /\ MetadataFile.feeds[k].error.type = "string"
                   /\ MetadataFile.feeds[k].error.value # ""
              ELSE MetadataFile.feeds[k].error = Null

FailedAsClaimed(k) == RequestFailed(k) \/ ParseFailed(k)

FailedInCode(k) == RequestFailed(k) \/ RefusedByRss(k)

\* C1 as stated: a feed fails on a non-2xx status, a time-out, a transport
\* error or a parse error; whichever feeds fail, the build completes, the
\* aggregate holds exactly the valid items of the other feeds, and
\* metadata.feeds[k].error is a non-null string exactly for the failed feeds
C1_AsClaimed == Isolation(FailedAsClaimed)

\* C1, amended: the same with a parse error counted as a failure in
\* build-rss.js only; build-fcps.js logs it and keeps the recovered items,
\* and the feed's error stays null
C1_PartialFailureIsolation == Isolation(FailedInCode)

\* two feeds, the first answers HTTP 500, the second delivers items: the
\* build is done, its pages hold the items of the second feed
C1_Witness ==
    /\ pc = "done"
    /\ Len(feeds) = 2
    /\ responses[1].kind = "status"
    /\ responses[2].kind = "body"
    /\ Len(allItems) > 0
    /\ \A n \in 1..Len(allItems) : allItems[n].feedName = feeds[2].name
    /\ MetadataFile.feeds[1].error = Str("HTTP 500: Internal Server Error")
    /\ MetadataFile.feeds[2].error = Null

\* the page files of dataDir
PageFileNames == DOMAIN dataDir \ {"metadata.json"}

\* the written PageRecords in page order
WrittenPages ==
    [k \in 1..Cardinality(PageFileNames) |-> dataDir[PageFileName(k)]]

\* the page loop has ended
PagesDone == pc \in {"assets", "done"}

RECURSIVE PagesItems(_)
PagesItems(ps) ==
    IF Len(ps) = 0 THEN << >>
    ELSE PagesItems(SubSeq(ps, 1, Len(ps) - 1)) \o ps[Len(ps)].items

\* C2: the items of the written pages, concatenated in page order, are the
\* sorted aggregate up to the last page written, and all of it once the page
\* loop has ended; the page item counts then add up to totalItems
C2_PaginationCovers ==
    /\ Len(PagesItems(WrittenPages)) <= Len(allItems)
    /\ PagesItems(WrittenPages)
           = SubSeq(allItems, 1, Len(PagesItems(WrittenPages)))
    /\ PagesDone =>
         /\ PagesItems(WrittenPages) = allItems
         /\ \A k \in 1..Len(WrittenPages) :
              WrittenPages[k].totalItems = Len(PagesItems(WrittenPages))
         /\ MetadataFile.totalItems = Len(PagesItems(WrittenPages))

\* build-fcps.js has written three or more pages, the last one not full
C2_Witness ==
    /\ variant = "fcps"
    /\ pc = "done"
    /\ Len(WrittenPages) >= 3
    /\ Len(WrittenPages[Len(WrittenPages)].items) < ITEMS_PER_PAGE(variant)
    /\ Len(WrittenPages[Len(WrittenPages)].items) > 0

\* the items of seq with timestamp t, in their order in seq
WithTimestamp(seq, t) == SelectSeq(seq, LAMBDA x : x.timestamp = t)

\* C3: in the aggregate handed to the page loop no item has a smaller
\* timestamp than the item behind it, and the items of one timestamp stand
\* in encounter order: feeds in list order, items in document order
C3_SortedStable ==
    Aggregated =>
        /\ \A n \in 1..(Len(allItems) - 1) :
             allItems[n].timestamp >= allItems[n + 1].timestamp
        /\ \A n \in 1..Len(allItems) :
             WithTimestamp(allItems, allItems[n].timestamp)
                 = WithTimestamp(ConcatItems(feedResults),
                                 allItems[n].timestamp)

\* the sort moved items, and two feeds hold items of the same timestamp
C3_Witness ==
    /\ pc = "done"
    /\ allItems # ConcatItems(feedResults)
    /\ \E m, n \in 1..Len(allItems) :
         /\ m < n
         /\ allItems[m].timestamp = allItems[n].timestamp
         /\ allItems[m].feedName # allItems[n].feedName
    /\ \E n \in 1..(Len(allItems) - 1) :
         allItems[n].timestamp > allItems[n + 1].timestamp

\* every item seen by the build after fetchRSSFeed: in the results of the
\* settled promises, in the aggregate and in the pages
ResultItems ==
    UNION { { promises[k].value.items[n] :
                  n \in 1..Len(promises[k].value.items) } :
            k \in { j \in 1..Len(promises) :
                        promises[j].state = "fulfilled" } }

AggregateItems ==
    { allItems[n] : n \in 1..Len(allItems) }
        \cup UNION { { pages[k].items[n] : n \in 1..Len(pages[k].items) } :
                     k \in 1..Len(pages) }

\* C4: every item of the aggregate and of the pages has a number greater
\* than zero as timestamp; in build-rss.js no item without pubDate or with
\* an unparseable pubDate is in any feed's items, the aggregate or a page
C4_PositiveTimestamps ==
    /\ \A item \in AggregateItems : GreaterThanZero(item.timestamp)
    /\ variant = "rss" =>
         \A item \in ResultItems \cup AggregateItems :
             /\ item.pubDate # ""
             /\ DateGetTime(item.pubDate) # NaN

\* build-rss.js is done; a document held items without pubDate, with an
\* unparseable one and with valid ones, and only the valid ones were kept
C4_Witness ==
    /\ variant = "rss"
    /\ pc = "done"
    /\ \E k \in 1..Len(feeds) :
         /\ responses[k].kind = "body"
         /\ \E n \in 1..Len(responses[k].items) :
              responses[k].items[n].pubDate = ""
         /\ \E n \in 1..Len(responses[k].items) :
              /\ responses[k].items[n].pubDate # ""
              /\ DateGetTime(responses[k].items[n].pubDate) = NaN
         /\ Len(feedResults[k].items) > 0
         /\ Len(feedResults[k].items) < Len(responses[k].items)

\* C5: totalPages is the ceiling of n / p for the aggregate size n and the
\* page size p, 0 for n = 0; every page before the last holds p items and
\* the last one holds the remaining 1..p items
C5_PageCount ==
    Aggregated =>
        /\ Len(allItems) = 0 => totalPages = 0
        /\ totalPages * ITEMS_PER_PAGE(variant) >= Len(allItems)
        /\ (totalPages - 1) * ITEMS_PER_PAGE(variant) < Len(allItems)
        /\ \A k \in 1..Len(pages) :
             IF k < totalPages
             THEN Len(pages[k].items) = ITEMS_PER_PAGE(variant)
             ELSE /\ Len(pages[k].items) >= 1
                  /\ Len(pages[k].items) <= ITEMS_PER_PAGE(variant)
                  /\ Len(pages[k].items)
                         = Len(allItems)
                               - (totalPages - 1) * ITEMS_PER_PAGE(variant)
        /\ PagesDone => Len(pages) = totalPages

\* 25 items with 20 items per page: two pages of 20 and 5 items
C5_Witness ==
    /\ variant = "rss"
    /\ pc = "done"
    /\ Len(allItems) = 25
    /\ totalPages = 2
    /\ Len(pages) = 2
    /\ Len(pages[1].items) = 20
    /\ Len(pages[2].items) = 5

\* C6: the PageRecords are numbered 1, 2, ... in the order written, up to
\* totalPages once the loop has ended, one file each; hasPrev is page > 1,
\* hasNext is page < totalPages; totalPages, totalItems and itemsPerPage are
\* the same in every page and in the metadata
C6_PageNumbering ==
    /\ PageFileNames = { PageFileName(k) : k \in 1..Len(pages) }
    /\ \A k \in 1..Len(pages) :
         /\ dataDir[PageFileName(k)] = pages[k]
         /\ pages[k].page = k
         /\ pages[k].hasPrev = (pages[k].page > 1)
         /\ pages[k].hasNext = (pages[k].page < pages[k].totalPages)
         /\ pages[k].totalPages = pages[1].totalPages
         /\ pages[k].totalItems = pages[1].totalItems
         /\ pages[k].itemsPerPage = pages[1].itemsPerPage
         /\ pages[k].page <= pages[k].totalPages
    /\ PagesDone /\ Len(pages) > 0 => Len(pages) = pages[1].totalPages
    /\ MetadataWritten =>
         \A k \in 1..Len(pages) :
             /\ pages[k].totalPages = MetadataFile.totalPages
             /\ pages[k].totalItems = MetadataFile.totalItems
             /\ pages[k].itemsPerPage = MetadataFile.itemsPerPage

\* three or more pages are written: the first without a previous page, the
\* second with both neighbours, the last without a next page
C6_Witness ==
    /\ pc = "done"
    /\ Len(pages) >= 3
    /\ ~pages[1].hasPrev /\ pages[1].hasNext
    /\ pages[2].hasPrev /\ pages[2].hasNext
    /\ pages[Len(pages)].hasPrev /\ ~pages[Len(pages)].hasNext
    /\ MetadataFile.totalPages = Len(pages)

\* all requests are answered and no feed has an item
NoItems ==
    /\ pc \notin {"start", "fetching", "delay"}
    /\ Len(feedResults) = Len(feeds)
    /\ \A k \in 1..Len(feedResults) : Len(feedResults[k].items) = 0

\* C7: when no feed yields an item (every feed failed, or there is no feed)
\* the build does not take the fatal exit for it (only a file system error
\* leads there), writes no page file, and the metadata it writes has
\* totalItems = 0 and totalPages = 0
C7_EmptyAggregate ==
    /\ pc = "exited" => logged \in FsErrors
    /\ NoItems =>
         /\ pages = << >>
         /\ PageFileNames = {}
         /\ PagesDone => MetadataWritten
         /\ MetadataWritten =>
              /\ MetadataFile.totalItems = 0
              /\ MetadataFile.totalPages = 0

\* two feeds, both requests fail, and the build is done
C7_Witness ==
    /\ pc = "done"
    /\ exitCode = 0
    /\ Len(feeds) = 2
    /\ \A k \in 1..Len(feeds) : RequestFailed(k)
    /\ NoItems
    /\ MetadataFile.totalItems = 0
    /\ MetadataFile.totalPages = 0
    /\ MetadataFile.totalFeeds = 2

(***************************************************************************)
(* Properties of fetchRSSFeed and of its item callback                     *)
(***************************************************************************)

\* the call of fetchRSSFeed has returned and its promise is settled
Returned == fetchIn # None /\ fetchOut # None

\* C8: the promise of fetchRSSFeed is never rejected: whatever the request
\* and the parser give, it is fulfilled with a result object for the feed.
\* After a non-2xx status, a time-out or a transport error the result has no
\* items and a non-empty error string, "HTTP <status>: <statusText>" for the
\* status; after a success (a well-formed document) it has no error
C8_FetchNeverRejects ==
    Returned =>
        /\ fetchOut.state = "fulfilled"
        /\ fetchOut.value.feedConfig = fetchIn.feedConfig
        /\ {"feedInfo", "items"} \subseteq DOMAIN fetchOut.value
        /\ fetchIn.response.kind \in {"reject", "status"} =>
             /\ fetchOut.value.items = << >>
             /\ "error" \in DOMAIN fetchOut.value
             /\ fetchOut.value.error # ""
        /\ fetchIn.response.kind = "status" =>
             fetchOut.value.error
                 = "HTTP " \o fetchIn.response.status \o ": "
                       \o fetchIn.response.statusText
        /\ fetchIn.response.kind = "reject" =>
             fetchOut.value.error = fetchIn.response.message
        /\ /\ fetchIn.response.kind = "body"
           /\ fetchIn.response.wellFormed
           /\ ~fetchIn.response.parsererror
           => "error" \notin DOMAIN fetchOut.value

\* build-individual-feeds.js: the request was answered with status 500 and
\* the call returned the error "HTTP 500: Internal Server Error"
C8_Witness ==
    /\ Returned
    /\ variant = "indiv"
    /\ fetchIn.response.kind = "status"
    /\ fetchOut.state = "fulfilled"
    /\ fetchOut.value.error = "HTTP 500: Internal Server Error"
    /\ fetchOut.value.items = << >>

\* the callback has returned
Normalized == itemIn # None /\ itemOut # None

\* the pair the id is derived from: the guid (the link when the guid is
\* absent, "#" when both are) and the feed name
IdPair(in) ==
    <<Or(in.item.guid, Or(in.item.link, "#")), in.feedConfig.name>>

\* C9: two calls of one script whose items carry the same (guid, feedName)
\* pair, the link standing in for an absent guid, give the same id, whatever
\* else differs between them (the feed, the other fields, Math.random()),
\* and no id is longer than 16 characters
C9_IdDeterministic ==
    /\ Normalized => Len(itemOut.id) <= 16
    /\ Normalized /\ itemPrev # None /\ IdPair(itemPrev.in) = IdPair(itemIn)
         => itemOut.id = itemPrev.out.id

\* two calls with the same pair for different feeds of the same name, one
\* item with the guid and the other with the link in its place, with
\* different dates and descriptions: both ids are the same 16 characters
C9_Witness ==
    /\ Normalized
    /\ itemPrev # None
    /\ IdPair(itemPrev.in) = IdPair(itemIn)
    /\ itemPrev.in.feedConfig # itemIn.feedConfig
    /\ itemPrev.in.item.guid = ""
    /\ itemIn.item.guid # ""
    /\ itemPrev.in.item.pubDate # itemIn.item.pubDate
    /\ itemPrev.out.description # itemOut.description
    /\ itemOut.id = itemPrev.out.id
    /\ Len(itemOut.id) = 16

\* the description once sanitized, before the truncation
SanitizedDescription ==
    sanitizeHtml(StripCDATA(itemIn.item.description), allowedTags)

\* C10: with MAX the budget of the script (250 in build-fcps.js, 300 in the
\* others), a sanitized description longer than MAX is stored as its first
\* MAX characters followed by "...", MAX + 3 characters in all; any other is
\* stored as it is
C10_Truncation ==
    Normalized =>
        IF Len(SanitizedDescription) > MAX_DESCRIPTION_LENGTH(variant)
        THEN /\ itemOut.description
                    = SubSeq(SanitizedDescription, 1,
                             MAX_DESCRIPTION_LENGTH(variant)) \o "..."
             /\ Len(itemOut.description)
                    = MAX_DESCRIPTION_LENGTH(variant) + 3
        ELSE itemOut.description = SanitizedDescription

\* build-fcps.js: a description of 250 characters that is longer once its
\* '&' is escaped is stored as 250 characters and the ellipsis
C10_Witness ==
    /\ Normalized
    /\ variant = "fcps"
    /\ Len(itemIn.item.description) = 250
    /\ Len(SanitizedDescription) > 250
    /\ Len(itemOut.description) = 253
    /\ SubSeq(itemOut.description, 251, 253) = "..."

(***************************************************************************)
(* The item callback on hostile items                                      *)
(***************************************************************************)

ValidDate == "Thu, 01 Jan 1970 00:00:02 GMT"

\* item elements that carry script elements, event handler attributes and
\* javascript: URLs, in markup and as plain text, in the title, in the
\* description and in the link; the last two are cut by the truncation
HostileInputs(v) ==
    { RawItem("Hi <script>alert(1)</script>", ItemLink,
              "<p>a</p><script>alert(1)</script>"
                  \o "<img src=\"x\" onerror=\"alert(1)\">"
                  \o "<a href=\"javascript:alert(1)\">go</a>",
              ValidDate, "h-1"),
      RawItem("About javascript: and onerror= in HTML", ItemLink,
              "Write onerror=x or javascript:void(0) <b>never</b>",
              ValidDate, "h-2"),
      RawItem("<b onerror=\"x()\">Bold</b>", "javascript:alert(1)",
              "<a href=\"https://a.example/\" onerror=\"x()\" "
                  \o "target=\"_blank\">ok</a>"
                  \o "<a href=\"mailto:a@a.example\">mail</a>"
                  \o "<a href=\"/local\">here</a>",
              ValidDate, "h-3"),
      RawItem("Unclosed", "ftp://a.example/f", "<script>alert(1)",
              "", "h-4"),
      RawItem("Cut", "",
              Repeat("x", MAX_DESCRIPTION_LENGTH(v) - 5)
                  \o "<a href=\"javascript:alert(1)\">go</a>"
                  \o "<script>s()</script>",
              ValidDate, "h-5"),
      RawItem("Cut in a tag", ItemLink,
              Repeat("x", MAX_DESCRIPTION_LENGTH(v) - 2)
                  \o "<strong>b</strong>",
              ValidDate, "h-6") }

\* the map callback is called with a hostile item element
NextHostile ==
    /\ itemIn = None \/ itemOut # None
    /\ \E feedConfig \in CallConfigs, item \in HostileInputs(variant),
          random \in RandomValues :
            /\ item.pubDate # "" \/ variant # "fcps" => random = 0
            /\ itemIn' = [feedConfig |-> feedConfig,
                          feedLink |-> "https://a.example/",
                          item |-> item, random |-> random]
    /\ itemOut' = None
    /\ UNCHANGED <<buildVars, clientVars, managerFeeds, managerCall,
                   slugIn, slugOut, fetchIn, fetchOut, itemPrev>>

\* the calls of the item callback with hostile items
SpecHostile ==
    NoBuild(Variants, { << >> }) /\ [][NextHostile \/ Normalize]_vars

Contains(s, pat) == IndexOf(s, pat, 0) > 0

Threats == {"<script>", "onerror=", "javascript:"}

TagStarts(s) == { k \in 1..Len(s) : Chr(s, k) = "<" }

\* the tag that starts at position k of s: its name, whether it is a
\* closing tag, the position of its '>' (0 when the tag is cut)
TagAt(s, k) ==
    [closing |-> IsClosingTag(SubstringFrom(s, k - 1)),
     name |-> NamePrefix(SubstringFrom(s, IF IsClosingTag(SubstringFrom(s, k - 1))
                                          THEN k + 1 ELSE k)),
     gt |-> IndexOf(s, ">", k)]

\* the attributes of the complete opening tag t of s that starts at k
AttributesAt(s, k, t) ==
    ParseAttributes(SubSeq(s, k + 1 + Len(t.name), t.gt - 1))

\* tag t of s at position k is one the allow-list admits: an allowed name,
\* allowed attributes only, no href with a scheme outside allowedSchemes
AllowedTagAt(s, k, t) ==
    /\ t.name \in allowedTags
    /\ ~t.closing =>
         \A n \in 1..Len(AttributesAt(s, k, t)) :
             /\ AttributesAt(s, k, t)[n].name \in allowedAttributes(t.name)
             /\ AttributesAt(s, k, t)[n].name = "href" =>
                    ~NaughtyHref(AttributesAt(s, k, t)[n].value)

\* the stored description ends with the ellipsis of the truncation
EndsWithEllipsis(s) == Len(s) >= 3 /\ SubSeq(s, Len(s) - 2, Len(s)) = "..."

IsHttp(url) == StartsAt(url, 1, "http://") \/ StartsAt(url, 1, "https://")

\* the values of the href attributes of the complete opening tags of s
Hrefs(s) ==
    { a.value : a \in
        { b \in UNION { { AttributesAt(s, k, TagAt(s, k))[n] :
                              n \in 1..Len(AttributesAt(s, k, TagAt(s, k))) } :
                        k \in { j \in TagStarts(s) :
                                    /\ TagAt(s, j).gt > 0
                                    /\ ~TagAt(s, j).closing } } :
              b.name = "href" } }

\* C12 as stated: every URL of a normalized item uses the http or the https
\* scheme: its link, unless it is the placeholder # of an absent link, and
\* every href kept in its description
C12_UrlValidation ==
    Normalized =>
        /\ itemOut.link = "#" \/ IsHttp(itemOut.link)
        /\ \A url \in Hrefs(itemOut.description) : IsHttp(url)

\* fetchRSSFeed of a lenient script has returned the items of a document
ReturnedItems ==
    /\ Returned
    /\ variant # "rss"
    /\ fetchIn.response.kind = "body"
    /\ "error" \notin DOMAIN fetchOut.value

\* the item elements of the request that the script looks at
RawItems == Substring(fetchIn.response.items, 0, ItemCap(variant))

Unparseable(pubDate) == pubDate # "" /\ DateGetTime(pubDate) = NaN

\* the stored items that come from raw item n
StoredOf(n) ==
    { m \in 1..Len(fetchOut.value.items) :
          /\ fetchOut.value.items[m].pubDate = RawItems[n].pubDate
          /\ fetchOut.value.items[m].link = Or(RawItems[n].link, "#") }

\* the fallback timestamp is positive, not later than the current time and,
\* in build-fcps.js, within the last 24 hours
SubstitutedTimestamp(t) ==
    /\ GreaterThanZero(t)
    /\ t <= fetchIn.now
    /\ variant = "fcps" => t > fetchIn.now - DAY_MS
    /\ variant # "fcps" => t = fetchIn.now

\* C13 as stated: in the lenient scripts an item whose pubDate is absent or
\* does not parse is among the feed's items, with a substituted timestamp
C13_AsClaimed ==
    ReturnedItems =>
        \A n \in 1..Len(RawItems) :
            RawItems[n].pubDate = "" \/ Unparseable(RawItems[n].pubDate) =>
                /\ StoredOf(n) # {}
                /\ \A m \in StoredOf(n) :
                       SubstitutedTimestamp(fetchOut.value.items[m].timestamp)

\* C13, amended: in the lenient scripts an item whose pubDate is absent is
\* among the feed's items with a substituted timestamp (the current time;
\* in build-fcps.js a time within the last 24 hours); an item whose pubDate
\* is present and does not parse gets no substitute and is left out
C13_LenientTimestamps ==
    ReturnedItems =>
        /\ \A n \in 1..Len(RawItems) :
             /\ RawItems[n].pubDate = "" =>
                  /\ StoredOf(n) # {}
                  /\ \A m \in StoredOf(n) :
                       SubstitutedTimestamp(fetchOut.value.items[m].timestamp)
             /\ Unparseable(RawItems[n].pubDate) => StoredOf(n) = {}
        /\ \A m \in 1..Len(fetchOut.value.items) :
             GreaterThanZero(fetchOut.value.items[m].timestamp)

\* build-fcps.js returned a document with an undated item, stored with a
\* time almost a day before the current time, and an item dated "next
\* Tuesday", left out
C13_Witness ==
    /\ ReturnedItems
    /\ variant = "fcps"
    /\ \E n \in 1..Len(RawItems) :
         /\ RawItems[n].pubDate = ""
         /\ \E m \in StoredOf(n) :
              fetchOut.value.items[m].timestamp = fetchIn.now - (DAY_MS - 1)
    /\ \E n \in 1..Len(RawItems) :
         /\ RawItems[n].pubDate = "next Tuesday"
         /\ StoredOf(n) = {}

(***************************************************************************)
(* Builds that follow one another in the same output directory             *)
(***************************************************************************)

\* how many builds run one after the other
MaxBuilds == 2

\* the time between the start of a build and the start of the next
BuildInterval == 1000

\* the script is run again after a build that completed: a new process with
\* the same configuration; ensureDistDirectory creates dist and dist/data
\* only when they are missing, so the files of the earlier build are there
Rebuild ==
    /\ pc = "done"
    /\ now < ClockStart + (MaxBuilds - 1) * BuildInterval
    /\ now' = now + BuildInterval
    /\ pc' = "start"
    /\ promises' = [k \in 1..Len(feeds) |-> Idle]
    /\ responses' = [k \in 1..Len(feeds) |-> NoResponse]
    /\ feedResults' = << >>
    /\ i' = 0
    /\ allItems' = << >>
    /\ feedSummary' = << >>
    /\ successfulFeeds' = 0
    /\ totalPages' = 0
    /\ pages' = << >>
    /\ exitCode' = 0 - 1
    /\ logged' = ""
    /\ UNCHANGED <<others, variant, feeds, dataDir>>

\* builds of the aggregate scripts, one after the other, with one feed
\* configured: the builds of one feed have no delay, which lies between two
\* requests
SpecRebuild ==
    /\ InitBuild(AggregateVariants, FeedConfigs) /\ Len(feeds) = 1
    /\ [][\/ StartBuild
          \/ \E k \in 1..Len(feeds) : CompleteRequest(k)
          \/ PromiseAll
          \/ FetchNext
          \/ Aggregate
          \/ WritePage
          \/ WriteMetadata
          \/ CopyAssets
          \/ FsError
          \/ Rebuild]_vars

\* C14: each build fully overwrites the output of the builds before it:
\* when a build has completed, the page files in the data directory are
\* exactly page-1.json .. page-<totalPages>.json of that build, next to its
\* metadata
C14_BuildOverwrites ==
    pc = "done" =>
        /\ PageFileNames = { PageFileName(k) : k \in 1..totalPages }
        /\ MetadataFile.totalPages = totalPages
        /\ \A k \in 1..totalPages : dataDir[PageFileName(k)] = pages[k]

(***************************************************************************)
(* The per-feed builds: buildTestIndividualFeeds ("test") and              *)
(* buildIndividualFeeds ("indiv"); dataDir is dist/feeds                   *)
(***************************************************************************)

\* what generateIndividualFeedHTML puts into the page of a feed: the feed's
\* information and its items (the markup around them is not modelled)
generateIndividualFeedHTML(feedResult) ==
    [page |-> "feed", feedInfo |-> feedResult.feedInfo,
     items |-> feedResult.items]

\* what generateFeedDirectoryHTML puts into the directory page
generateFeedDirectoryHTML(allFeeds) ==
    [page |-> "directory",
     feeds |-> [k \in 1..Len(allFeeds) |-> allFeeds[k].feedInfo]]

\* jsonData of one feed
JsonData(feedResult, t) ==
    [feedInfo |-> feedResult.feedInfo,
     items |-> feedResult.items,
     lastUpdated |-> t,
     success |-> feedResult.success,
     error |-> ErrorOrNull(feedResult)]

\* the fetch loop is over: const successfulFeeds = []; the loop over
\* feedResults begins
GenerateFeedPages ==
    /\ variant \notin AggregateVariants
    /\ pc = "collected"
    /\ i' = 0
    /\ successfulFeeds' = 0
    /\ pc' = "generating"
    /\ UNCHANGED <<others, variant, feeds, now, promises, responses, feedResults,
                   allItems, feedSummary, totalPages, pages, dataDir,
                   exitCode, logged>>

\* one iteration of for (const feedResult of feedResults): index.html and
\* data.json in the directory named by the slug; "indiv" counts the result
\* when its success flag is set
WriteFeedPage ==
    /\ pc = "generating"
    /\ i < Len(feedResults)
    /\ pages' = Append(pages, JsonData(feedResults[i + 1], now))
    /\ dataDir' =
         WriteFile(WriteFile(dataDir,
                             feedResults[i + 1].feedInfo.slug \o "/index.html",
                             generateIndividualFeedHTML(feedResults[i + 1])),
                   feedResults[i + 1].feedInfo.slug \o "/data.json",
                   pages'[Len(pages')])
    /\ successfulFeeds' = IF variant = "indiv" /\ feedResults[i + 1].success
                          THEN successfulFeeds + 1 ELSE successfulFeeds
    /\ i' = i + 1
    /\ UNCHANGED <<others, variant, feeds, now, pc, promises, responses, feedResults,
                   allItems, feedSummary, totalPages, exitCode, logged>>

\* fs.writeFileSync(path.join(feedsDir, 'index.html'), directoryHTML); the
\* test build then logs its completion and the process ends with code 0
WriteDirectory ==
    /\ pc = "generating"
    /\ i >= Len(feedResults)
    /\ dataDir' = WriteFile(dataDir, "index.html",
                            generateFeedDirectoryHTML(feedResults))
    /\ IF variant = "indiv"
       THEN pc' = "manifest" /\ UNCHANGED exitCode
       ELSE pc' = "done" /\ exitCode' = 0
    /\ UNCHANGED <<others, variant, feeds, now, promises, responses, feedResults, i,
                   allItems, feedSummary, successfulFeeds, totalPages, pages,
                   logged>>

\* the manifest of buildIndividualFeeds
Manifest ==
    [totalFeeds |-> Len(feeds),
     successfulFeeds |-> successfulFeeds,
     failedFeeds |-> Len(feeds) - successfulFeeds,
     lastUpdated |-> now,
     feeds |-> [k \in 1..Len(feedResults) |->
                   [name |-> feedResults[k].feedInfo.title,
                    slug |-> feedResults[k].feedInfo.slug,
                    category |-> feedResults[k].feedInfo.category,
                    url |-> "/feeds/" \o feedResults[k].feedInfo.slug \o "/",
                    rssUrl |-> feedResults[k].feedConfig.url,
                    articleCount |-> Len(feedResults[k].items),
                    success |-> feedResults[k].success,
                    error |-> ErrorOrNull(feedResults[k])]]]

\* fs.writeFileSync(manifest.json); the completion is logged and the process
\* ends with code 0
WriteManifest ==
    /\ pc = "manifest"
    /\ dataDir' = WriteFile(dataDir, "manifest.json", Manifest)
    /\ pc' = "done"
    /\ exitCode' = 0
    /\ UNCHANGED <<others, variant, feeds, now, promises, responses, feedResults, i,
                   allItems, feedSummary, successfulFeeds, totalPages, pages,
                   logged>>

\* a file system call of a per-feed build throws: ensureDirectories or the
\* copy of styles.css before the first request, a mkdirSync or writeFileSync
\* of the loop, the directory page, the manifest
FsErrorFeeds ==
    /\ variant \notin AggregateVariants
    /\ pc \in {"start", "generating", "manifest"}
    /\ \E error \in FsErrors : Exit1(error)
    /\ UNCHANGED <<others, variant, feeds, now, promises, responses, feedResults, i,
                   allItems, feedSummary, successfulFeeds, totalPages, pages,
                   dataDir>>

\* one build of any of the four scripts
SpecAll ==
    /\ InitBuild(Variants, FeedConfigs)
    /\ [][\/ StartBuild
          \/ \E k \in 1..Len(feeds) : CompleteRequest(k)
          \/ PromiseAll
          \/ FetchNext
          \/ DelayElapsed
          \/ Aggregate
          \/ WritePage
          \/ WriteMetadata
          \/ CopyAssets
          \/ FsError
          \/ GenerateFeedPages
          \/ WriteFeedPage
          \/ WriteDirectory
          \/ WriteManifest
          \/ FsErrorFeeds]_vars

(***************************************************************************)
(* Properties of the fetch phase                                           *)
(***************************************************************************)

\* the requests in flight
InFlight == { k \in 1..Len(promises) : promises[k] = Pending }

\* the requests that have started
Started == { k \in 1..Len(promises) : promises[k] # Idle }

\* at most one request is in flight; the requests that have started are the
\* first ones of the descriptor list, all but the last of them completed;
\* the build waits only after a request that is not the last
OneAtATime ==
    variant # "rss" =>
        /\ Cardinality(InFlight) <= 1
        /\ Started = 1..Cardinality(Started)
        /\ InFlight \subseteq {Cardinality(Started)}
        /\ Len(feedResults) = Cardinality(Started \ InFlight)
        /\ pc = "delay" =>
             /\ InFlight = {}
             /\ Cardinality(Started) < Len(feeds)

\* a request other than the first starts only when the delay ends; when a
\* request completes, with or without an error, the delay begins if a
\* descriptor is left, and the fetch phase ends at once if none is
DelayBetween ==
    variant # "rss" =>
        /\ \A k \in 1..Len(feeds) :
             promises[k] = Idle /\ promises'[k] # Idle =>
                 /\ promises'[k] = Pending
                 /\ k > 1 => pc = "delay" /\ pc' = "fetching"
        /\ \A k \in 1..Len(feeds) :
             promises[k] = Pending /\ promises'[k] # Pending =>
                 /\ promises'[k].state = "fulfilled"
                 /\ pc' = IF k < Len(feeds) THEN "delay" ELSE "collected"
        /\ pc = "delay" /\ pc' # "delay" => pc' = "fetching"

\* C15: in the serialized builds (buildFCPSSite, buildIndividualFeeds,
\* buildTestIndividualFeeds) at most one feed request is in flight at any
\* time, the requests start in descriptor order, the delay lies between the
\* completion of a request and the start of the next whether the request
\* succeeded or failed, and no delay follows the last request
C15_SerializedFetching == []OneAtATime /\ [][DelayBetween]_vars

\* the test build waits after its first request, which failed, while the
\* second has not started
C15_Witness ==
    /\ variant = "test"
    /\ Len(feeds) = 2
    /\ pc = "delay"
    /\ RequestFailed(1)
    /\ ErrorOrNull(feedResults[1]) # Null
    /\ promises[2] = Idle

\* C16: in build-rss.js a delay separates every two consecutive feed
\* requests, so that two feed requests are never in flight together
C16_RateLimiting == variant = "rss" => Cardinality(InFlight) <= 1

(***************************************************************************)
(* Fatal errors                                                            *)
(***************************************************************************)

\* the process has ended with status 1 exactly when the catch of the build
\* function ran, which logged the error; a build that logged its completion
\* caught no error
FatalExit ==
    /\ pc = "exited" <=> exitCode = 1
    /\ pc = "exited" <=> logged # ""
    /\ pc = "exited" => logged \in FsErrors
    /\ pc = "done" => exitCode = 0

\* the step in which an error is caught ends the process and writes no file,
\* and nothing happens after it
FatalStep ==
    /\ logged' # logged => /\ pc' = "exited"
                           /\ exitCode' = 1
                           /\ dataDir' = dataDir
    /\ pc = "exited" => /\ pc' = "exited"
                        /\ dataDir' = dataDir
                        /\ exitCode' = exitCode

\* C17: an error that escapes fetchRSSFeed during a build (a failing write
\* of an artifact, a failing copy of an asset) makes the build log the
\* cause and end with exit status 1; after it the build never logs its
\* completion and writes no further artifact
C17_FatalErrors == []FatalExit /\ [][FatalStep]_vars

\* build-individual-feeds.js wrote a feed's pages and the directory page,
\* the write of the manifest failed, and the process ended with status 1
C17_Witness ==
    /\ variant = "indiv"
    /\ pc = "exited"
    /\ exitCode = 1
    /\ logged \in FsErrors
    /\ Len(pages) > 0
    /\ "index.html" \in DOMAIN dataDir
    /\ "manifest.json" \notin DOMAIN dataDir

(***************************************************************************)
(* createSlug, call by call                                                *)
(***************************************************************************)

\* the longest generated feed name
MaxNameLen == 3

\* a letter of each case, a digit, the underscore, the blank, the hyphen and
\* a special character
NameAlphabet == {"a", "B", "1", "_", " ", "-", "&"}

\* createSlug(name) is called, with any string over NameAlphabet of up to
\* MaxNameLen characters or a name of the configuration
CallSlug ==
    /\ slugIn = None \/ slugOut # None
    /\ \E name \in
           UNION { { Join(w) : w \in [1..n -> NameAlphabet] } :
                       n \in 0..MaxNameLen }
               \cup { FeedConfigs[k].name : k \in 1..Len(FeedConfigs) } :
         slugIn' = [name |-> name]
    /\ slugOut' = None
    /\ UNCHANGED <<buildVars, clientVars, managerFeeds, managerCall,
                   fetchIn, fetchOut, itemIn, itemOut, itemPrev>>

\* it returns
ReturnSlug ==
    /\ slugIn # None
    /\ slugOut = None
    /\ slugOut' = [slug |-> createSlug(slugIn.name)]
    /\ UNCHANGED <<buildVars, clientVars, managerFeeds, managerCall,
                   fetchIn, fetchOut, itemIn, itemOut, itemPrev,
                   slugIn>>

\* the calls of createSlug, which exists in the per-feed scripts
SpecSlug ==
    /\ NoBuild(Variants \ AggregateVariants, { << >> })
    /\ [][CallSlug \/ ReturnSlug]_vars

SlugChars == Letters \o Digits \o "_-"

\* C18: for every feed name createSlug returns a string made only of
\* lowercase letters, digits, underscore and hyphen, with no two
\* consecutive hyphens and with no leading or trailing hyphen, and
\* createSlug applied to the slug returns the slug
C18_SlugShape ==
    slugIn # None /\ slugOut # None =>
        /\ \A k \in 1..Len(slugOut.slug) :
             Contains(SlugChars, Chr(slugOut.slug, k))
        /\ ~Contains(slugOut.slug, "--")
        /\ ~StartsAt(slugOut.slug, 1, "-")
        /\ ~StartsAt(slugOut.slug, Len(slugOut.slug), "-")
        /\ createSlug(slugOut.slug) = slugOut.slug

(***************************************************************************)
(* The feed counts of the build summary                                    *)
(***************************************************************************)

\* the feeds whose result carries an error, and those whose result does not
WithError == { k \in 1..Len(feedResults) : ErrorOrNull(feedResults[k]) # Null }

WithoutError == { k \in 1..Len(feedResults) : ErrorOrNull(feedResults[k]) = Null }

\* the counts of a summary match the outcomes of the requests
CountsMatch(summary) ==
    /\ "successfulFeeds" \in DOMAIN summary
    /\ summary.successfulFeeds = Cardinality(WithoutError)
    /\ summary.totalFeeds - summary.successfulFeeds = Cardinality(WithError)
    /\ "failedFeeds" \in DOMAIN summary =>
           /\ summary.failedFeeds = Cardinality(WithError)
           /\ summary.successfulFeeds + summary.failedFeeds = summary.totalFeeds

\* C19: the summary of a build reports counts of successful and failed feeds
\* that match the outcomes: the successful count is the number of feeds
\* whose result carries no error, the failed count the number whose result
\* carries one, and they add up to totalFeeds, in metadata.json of the
\* aggregate builds and in manifest.json of the individual-feed build
C19_FeedCounts ==
    pc = "done" =>
        /\ variant \in AggregateVariants => CountsMatch(MetadataFile)
        /\ variant = "indiv" => CountsMatch(dataDir["manifest.json"])

(***************************************************************************)
(* The item cap of a feed                                                  *)
(***************************************************************************)

\* fetchRSSFeed has returned the items of a document
ReturnedDocument ==
    /\ Returned
    /\ fetchIn.response.kind = "body"
    /\ "error" \notin DOMAIN fetchOut.value

ValidRawHere(raw) == ValidRaw(variant, raw)

\* the links of the valid item elements among the first cap of the
\* document, in document order
LinksOfFirst(cap) ==
    [k \in 1..Len(SelectSeq(Substring(fetchIn.response.items, 0, cap),
                            ValidRawHere)) |->
        Or(SelectSeq(Substring(fetchIn.response.items, 0, cap),
                     ValidRawHere)[k].link, "#")]

\* the links of the items of the result
LinksOfResult ==
    [k \in 1..Len(fetchOut.value.items) |-> fetchOut.value.items[k].link]

\* the items of the result are the valid ones of the first cap item
\* elements, in document order
CappedAt(cap) ==
    /\ Len(fetchOut.value.items) <= cap
    /\ LinksOfResult = LinksOfFirst(cap)

\* C20 as stated: the cap of every script lies in 30..50 and is 50 in
\* build-rss.js: a feed contributes at most that many items, the valid ones
\* of the first cap item elements in document order, and none beyond
C20_AsClaimed ==
    ReturnedDocument =>
        \E cap \in 30..50 : /\ variant = "rss" => cap = 50
                            /\ CappedAt(cap)

\* C20, amended: the cap is 50 in build-rss.js, 30 in build-fcps.js, 20 in
\* build-individual-feeds.js and 15 in build-individual-test.js: a feed
\* contributes at most that many items, the valid ones of the first cap
\* item elements in document order, and none beyond
C20_ItemCap ==
    ReturnedDocument =>
        CappedAt(CASE variant = "rss" -> 50
                   [] variant = "fcps" -> 30
                   [] variant = "indiv" -> 20
                   [] OTHER -> 15)

\* build-rss.js was given a document of more than 50 items and returned
\* the first 50
C20_Witness ==
    /\ ReturnedDocument
    /\ variant = "rss"
    /\ Len(fetchIn.response.items) > 50
    /\ Len(fetchOut.value.items) = 50
    /\ fetchOut.value.items[50].link = fetchIn.response.items[50].link

(***************************************************************************)
(* The defaults of the item fields                                         *)
(***************************************************************************)

\* C21: a missing or empty child of an item element yields the default:
\* title "No Title", link "#", description "", pubDate "", and guid the
\* resolved link (seen in the id, which is derived from the guid); a child
\* that is present and not empty is never replaced by a default
C21_ItemDefaults ==
    Normalized =>
        /\ itemOut.title = IF itemIn.item.title = "" THEN "No Title"
                           ELSE sanitizeHtml(itemIn.item.title, {})
        /\ itemOut.link = IF itemIn.item.link = "" THEN "#"
                          ELSE itemIn.item.link
        /\ itemIn.item.description = "" => itemOut.description = ""
        /\ itemOut.pubDate = itemIn.item.pubDate
        /\ itemOut.id = ItemId(variant,
                               IF itemIn.item.guid = "" THEN itemOut.link
                               ELSE itemIn.item.guid,
                               itemIn.feedConfig.name)

\* an item element without any child was stored with every default, and
\* its id is that of the guid "#"
C21_Witness ==
    /\ Normalized
    /\ itemIn.item = RawItem("", "", "", "", "")
    /\ itemOut.title = "No Title"
    /\ itemOut.link = "#"
    /\ itemOut.description = ""
    /\ itemOut.pubDate = ""
    /\ itemOut.id = ItemId(variant, "#", itemIn.feedConfig.name)

(***************************************************************************)
(* Aggregation after collection                                            *)
(***************************************************************************)

\* something of the aggregation exists: the sorted list, the summary, a
\* page file or the metadata file
AggregationBegun ==
    \/ allItems # << >>
    \/ feedSummary # << >>
    \/ pages # << >>
    \/ dataDir # << >>
    \/ pc \in {"paging", "assets", "done"}

\* every request has completed and feedResults holds the result of
\* descriptor k at position k
AllCollected ==
    /\ \A k \in 1..Len(feeds) : promises[k].state = "fulfilled"
    /\ Len(feedResults) = Len(feeds)
    /\ \A k \in 1..Len(feeds) :
         /\ feedResults[k].feedConfig = feeds[k]
         /\ feedResults[k] = promises[k].value

\* C22: in the parallel and in the serialized build the aggregation begins
\* only after the result of every feed has been collected: no sort, page
\* file or metadata file exists while a request is pending, and the
\* collected results hold exactly one result per descriptor
C22_AggregationAfterCollection ==
    /\ AggregationBegun => AllCollected
    /\ pc = "collected" => AllCollected

\* two feeds, the first failed and the second answered, and the first page
\* file is written
C22_Witness ==
    /\ Len(feeds) = 2
    /\ pc = "paging"
    /\ RequestFailed(1)
    /\ Len(feedResults[2].items) > 0
    /\ Len(pages) = 1
    /\ AllCollected

\* C23: the feed name contributes to the id: two items with the same guid
\* (the same link when the guid is absent) that belong to feeds with
\* different names get different ids, in every script
C23_FeedNameInId ==
    /\ Normalized
    /\ itemPrev # None
    /\ IdPair(itemPrev.in)[1] = IdPair(itemIn)[1]
    /\ itemPrev.in.feedConfig.name # itemIn.feedConfig.name
    => itemOut.id # itemPrev.out.id

(***************************************************************************)
(* The parallel build and the order of completion                          *)
(***************************************************************************)

\* the position in the descriptor list of the feed an item belongs to
FeedIndex(item) ==
    Least({ k \in 1..Len(feeds) : feeds[k].name = item.feedName })

\* the result of descriptor k as the response of its request determines it
ResultOf(k) == fetchRSSFeed(variant, feeds[k], responses[k], now, << >>).value

\* C24: in the parallel build (buildStaticSite), with the responses of the
\* feeds fixed, the pages and the order of metadata.feeds do not depend on
\* the order in which the requests complete: the result at position k is
\* that of descriptor k, the aggregate is ordered by timestamp, newest
\* first, and items with the same timestamp are in descriptor order
C24_CompletionOrder ==
    variant = "rss" =>
        /\ pc \in {"fetching", "done"} =>
             \A k \in 1..Len(feeds) :
                 promises[k].state = "fulfilled" =>
                     promises[k].value = ResultOf(k)
        /\ pc \in {"collected", "paging", "assets", "done"} =>
             \A k \in 1..Len(feeds) : feedResults[k] = promises[k].value
        /\ PagesDone =>
             /\ \A k \in 1..Len(feeds) :
                  /\ feedSummary[k].name = feeds[k].name
                  /\ feedSummary[k].itemCount = Len(feedResults[k].items)
             /\ MetadataFile.feeds = feedSummary
             /\ \A a, b \in 1..Len(allItems) :
                  a < b =>
                    \/ allItems[a].timestamp > allItems[b].timestamp
                    \/ /\ allItems[a].timestamp = allItems[b].timestamp
                       /\ FeedIndex(allItems[a]) <= FeedIndex(allItems[b])
             /\ PagesItems(pages) = allItems

\* the request of the second feed has completed while the request of the
\* first is still pending, and both feeds have items of the same date
C24_Witness ==
    /\ variant = "rss"
    /\ Len(feeds) = 2
    /\ pc = "fetching"
    /\ promises[1] = Pending
    /\ promises[2].state = "fulfilled"
    /\ \E m \in 1..Len(promises[2].value.items) :
         promises[2].value.items[m].timestamp = 2000

(***************************************************************************)
(* The per-feed build of feeds whose names differ                          *)
(***************************************************************************)

\* one run of buildIndividualFeeds with a config/feeds.json whose names are
\* pairwise distinct
SpecDistinct ==
    /\ InitBuild({"indiv"},
                 << FeedConfigs[5],
                    [name |-> "Tech Science Daily",
                     url |-> "https://f.example/feed.rss",
                     category |-> "high"],
                    FeedConfigs[2] >>)
    /\ [][\/ StartBuild
          \/ FetchNext
          \/ DelayElapsed
          \/ GenerateFeedPages
          \/ WriteFeedPage
          \/ WriteDirectory
          \/ WriteManifest
          \/ FsErrorFeeds]_vars

DistinctNames ==
    \A j, k \in 1..Len(feeds) : j # k => feeds[j].name # feeds[k].name

\* C25: when buildIndividualFeeds has finished a build of feeds with pairwise
\* distinct names, for every feed listed in manifest.json the data.json and
\* the index.html under the feed's slug directory hold that feed's own
\* feedInfo and items: no other feed and not the directory page has
\* overwritten them
C25_OwnArtifacts ==
    variant = "indiv" /\ pc = "done" /\ exitCode = 0 /\ DistinctNames =>
        \A k \in 1..Len(dataDir["manifest.json"].feeds) :
            LET slug == dataDir["manifest.json"].feeds[k].slug
            IN  /\ dataDir[slug \o "/data.json"].feedInfo
                      = feedResults[k].feedInfo
                /\ dataDir[slug \o "/data.json"].items = feedResults[k].items
                /\ dataDir[slug \o "/index.html"]
                      = generateIndividualFeedHTML(feedResults[k])

(***************************************************************************)
(* The client of the aggregate site: RSSFeedApp of build-rss.js ("rss")    *)
(* and FCPSFeedApp of build-fcps-feeds.js ("fcps"); dataDir is the         *)
(* deployed dist/data the page fetches from                                *)
(***************************************************************************)

\* the number of items of the deployed site, when it is not empty
SiteItemCount == 41

\* the fetches the page may have in flight at a time
MaxRequests == 2

\* the k-th item of the site, with the fields the build's item callback
\* gives an item; the feeds take turns
SiteItem(v, k) ==
    [id |-> "aXRlbS0" \o Decimal(k),
     title |-> "News " \o Decimal(k),
     link |-> "https://a.example/" \o Decimal(k),
     description |-> "Menu",
     pubDate |-> "Thu, 01 Jan 1970 00:00:02 GMT",
     timestamp |-> 2000,
     feedName |-> FeedConfigs[1 + (k % 2)].name,
     category |-> FeedConfigs[1 + (k % 2)].category,
     feedSource |-> "https://a.example/"]

\* dist/data after a build of n items: metadata.json (without the list of
\* the feeds, which the page does not read) and the page files
Site(v, n) ==
    LET items == [k \in 1..n |-> SiteItem(v, k)]
        pageCount == Ceil(n, ITEMS_PER_PAGE(v))
    IN  [name \in {"metadata.json"}
                      \cup { PageFileName(page) : page \in 1..pageCount } |->
            IF name = "metadata.json"
            THEN [totalItems |-> n,
                  totalPages |-> pageCount,
                  itemsPerPage |-> ITEMS_PER_PAGE(v),
                  lastUpdated |-> ClockStart,
                  categories |->
                      Unique([k \in 1..n |-> items[k].category])]
            ELSE PageData(items, pageCount, ITEMS_PER_PAGE(v),
                          (CHOOSE page \in 1..pageCount :
                               PageFileName(page) = name) - 1)]

\* new RSSFeedApp(): the constructor sets the fields and calls init(), which
\* starts the fetch of data/metadata.json
InitClient ==
    /\ variant \in AggregateVariants
    /\ feeds = << >>
    /\ now = ClockStart
    /\ pc = "start"
    /\ promises = << >>
    /\ responses = << >>
    /\ feedResults = << >>
    /\ i = 0
    /\ allItems = << >>
    /\ feedSummary = << >>
    /\ successfulFeeds = 0
    /\ totalPages = 0
    /\ pages = << >>
    /\ \E n \in {0, SiteItemCount} : dataDir = Site(variant, n)
    /\ exitCode = 0 - 1
    /\ logged = ""
    /\ fetchIn = None
    /\ fetchOut = None
    /\ itemIn = None
    /\ itemOut = None
    /\ itemPrev = None
    /\ slugIn = None
    /\ slugOut = None
    /\ currentPage = 1
    /\ metadata = None
    /\ currentCategory = "all"
    /\ searchQuery = ""
    /\ searchTimeout = FALSE
    /\ requests = << [kind |-> "metadata"] >>
    /\ rssItems = None
    /\ pagination = None
    /\ errorText = ""
    /\ managerFeeds = << >>
    /\ managerCall = None

\* seq.splice(k - 1, 1): seq without its k-th element
Splice(seq, k) == SubSeq(seq, 1, k - 1) \o SubSeq(seq, k + 1, Len(seq))

\* the category filter and the search filter of applyFilters and of
\* FCPSFeedApp's loadPage, with the fields as they are when the filter runs
FilterItems(items) ==
    SelectSeq(items,
              LAMBDA item :
                  /\ currentCategory # "all" => item.category = currentCategory
                  /\ searchQuery # "" =>
                         \/ Contains(toLowerCase(item.title), searchQuery)
                         \/ Contains(toLowerCase(item.description), searchQuery)
                         \/ Contains(toLowerCase(item.feedName), searchQuery))

\* response.ok of a fetch of data/<name>: the file is there and the network
\* and the server let it through
Ok(name, delivered) == delivered /\ name \in DOMAIN dataDir

\* the metadata request completes: with the metadata init() sets up the
\* listeners and calls loadPage(1), which hides the error box and fetches;
\* without it init() shows the error and the page stays without listeners
CompleteMetadata(k, delivered) ==
    /\ requests[k].kind = "metadata"
    /\ IF Ok("metadata.json", delivered)
       THEN /\ metadata' = dataDir["metadata.json"]
            /\ requests' = Append(Splice(requests, k),
                                  [kind |-> "page", page |-> 1])
            /\ errorText' = ""
       ELSE /\ errorText' =
                  "Failed to initialize application: Failed to load metadata"
            /\ requests' = Splice(requests, k)
            /\ UNCHANGED metadata
    /\ UNCHANGED <<buildVars, callVars, managerFeeds, managerCall, currentPage,
                   currentCategory, searchQuery, searchTimeout, rssItems,
                   pagination>>

\* a click on Previous (delta = -1) or Next (delta = 1): the buttons can be
\* clicked once updatePagination has shown them, and a disabled button gives
\* no click
Click(delta) ==
    /\ metadata # None
    /\ pagination # None
    /\ IF delta < 0 THEN pagination.hasPrev ELSE pagination.hasNext
    /\ Len(requests) < MaxRequests
    /\ IF (delta < 0 /\ currentPage > 1)
            \/ (delta > 0 /\ currentPage < metadata.totalPages)
       THEN /\ requests' = Append(requests, [kind |-> "page",
                                             page |-> currentPage + delta])
            /\ errorText' = ""
       ELSE UNCHANGED <<requests, errorText>>
    /\ UNCHANGED <<buildVars, callVars, managerFeeds, managerCall, currentPage,
                   metadata, currentCategory, searchQuery, searchTimeout,
                   rssItems, pagination>>

\* the change event of the category select: RSSFeedApp calls applyFilters(),
\* which fetches the page currentPage names now; FCPSFeedApp calls loadPage(1)
ChangeCategory ==
    /\ metadata # None
    /\ Len(requests) < MaxRequests
    /\ \E value \in {"all"} \cup
           { metadata.categories[c] : c \in 1..Len(metadata.categories) } :
         /\ value # currentCategory
         /\ currentCategory' = value
    /\ IF variant = "rss"
       THEN /\ requests' = Append(requests, [kind |-> "filter",
                                             page |-> currentPage])
            /\ UNCHANGED errorText
       ELSE /\ requests' = Append(requests, [kind |-> "page", page |-> 1])
            /\ errorText' = ""
    /\ UNCHANGED <<buildVars, callVars, managerFeeds, managerCall, currentPage,
                   metadata, searchQuery, searchTimeout, rssItems, pagination>>

\* the input event of the search box, whose text is value: RSSFeedApp calls
\* applyFilters();
\* FCPSFeedApp clears its timer and sets it again
InputSearch(value) ==
    /\ metadata # None
    /\ toLowerCase(value) # searchQuery
    /\ searchQuery' = toLowerCase(value)
    /\ IF variant = "rss"
       THEN /\ Len(requests) < MaxRequests
            /\ requests' = Append(requests, [kind |-> "filter",
                                             page |-> currentPage])
            /\ UNCHANGED searchTimeout
       ELSE /\ searchTimeout' = TRUE
            /\ UNCHANGED requests
    /\ UNCHANGED <<buildVars, callVars, managerFeeds, managerCall, currentPage,
                   metadata, currentCategory, rssItems, pagination, errorText>>

\* FCPSFeedApp: 300 ms after the last input the timer calls loadPage(1)
SearchTimeout ==
    /\ searchTimeout
    /\ Len(requests) < MaxRequests
    /\ searchTimeout' = FALSE
    /\ requests' = Append(requests, [kind |-> "page", page |-> 1])
    /\ errorText' = ""
    /\ UNCHANGED <<buildVars, callVars, managerFeeds, managerCall, currentPage,
                   metadata, currentCategory, searchQuery, rssItems,
                   pagination>>

\* a loadPage that sets currentPage before it looks at the response
CompletePageSetsFirst(k, delivered) ==
    /\ requests[k].kind = "page"
    /\ requests' = Splice(requests, k)
    /\ currentPage' = requests[k].page
    /\ IF Ok(PageFileName(requests[k].page), delivered)
       THEN LET pageData == dataDir[PageFileName(requests[k].page)]
            IN  /\ rssItems' =
                       [from |-> pageData.page,
                        items |-> IF variant = "rss" THEN pageData.items
                                  ELSE FilterItems(pageData.items)]
                /\ pagination' = [page |-> pageData.page,
                                  totalPages |-> pageData.totalPages,
                                  hasPrev |-> pageData.hasPrev,
                                  hasNext |-> pageData.hasNext]
                /\ UNCHANGED errorText
       ELSE /\ errorText' = "Failed to load page: Failed to load page data"
            /\ UNCHANGED <<rssItems, pagination>>
    /\ UNCHANGED <<buildVars, callVars, managerFeeds, managerCall, metadata,
                   currentCategory, searchQuery, searchTimeout>>

\* the fetch of loadPage(pageNum) completes: with the page data the call sets
\* currentPage, renders the items (FCPSFeedApp: the filtered items) and
\* updates the pagination; otherwise it shows the error
CompletePage(k, delivered) ==
    /\ requests[k].kind = "page"
    /\ requests' = Splice(requests, k)
    /\ IF Ok(PageFileName(requests[k].page), delivered)
       THEN LET pageData == dataDir[PageFileName(requests[k].page)]
            IN  /\ currentPage' = requests[k].page
                /\ rssItems' =
                       [from |-> pageData.page,
                        items |-> IF variant = "rss" THEN pageData.items
                                  ELSE FilterItems(pageData.items)]
                /\ pagination' = [page |-> pageData.page,
                                  totalPages |-> pageData.totalPages,
                                  hasPrev |-> pageData.hasPrev,
                                  hasNext |-> pageData.hasNext]
                /\ UNCHANGED errorText
       ELSE /\ errorText' = "Failed to load page: Failed to load page data"
            /\ UNCHANGED <<currentPage, rssItems, pagination>>
    /\ UNCHANGED <<buildVars, callVars, managerFeeds, managerCall, metadata,
                   currentCategory, searchQuery, searchTimeout>>

\* the fetch of applyFilters() completes: the call renders the filtered items
\* of the page it fetched and leaves currentPage and the pagination alone;
\* without the page data response.json() throws and it shows the error
CompleteFilter(k, delivered) ==
    /\ requests[k].kind = "filter"
    /\ requests' = Splice(requests, k)
    /\ IF Ok(PageFileName(requests[k].page), delivered)
       THEN /\ rssItems' =
                  [from |-> dataDir[PageFileName(requests[k].page)].page,
                   items |-> FilterItems(
                       dataDir[PageFileName(requests[k].page)].items)]
            /\ UNCHANGED errorText
       ELSE /\ errorText' = "Failed to apply filters: Unexpected token"
            /\ UNCHANGED rssItems
    /\ UNCHANGED <<buildVars, callVars, managerFeeds, managerCall, currentPage,
                   metadata, currentCategory, searchQuery, searchTimeout,
                   pagination>>

\* the page in the browser, its user and the network
SpecClient ==
    /\ InitClient
    /\ [][\/ \E k \in 1..Len(requests), delivered \in BOOLEAN :
                 CompleteMetadata(k, delivered)
          \/ \E k \in 1..Len(requests), delivered \in BOOLEAN :
                 CompletePage(k, delivered)
          \/ \E k \in 1..Len(requests), delivered \in BOOLEAN :
                 CompleteFilter(k, delivered)
          \/ \E delta \in {0 - 1, 1} : Click(delta)
          \/ ChangeCategory
          \/ \E value \in {"", "Aldrin"} : InputSearch(value)
          \/ SearchTimeout]_vars

(***************************************************************************)
(* Properties of the client                                                *)
(***************************************************************************)

\* init() has got the metadata and the listeners are set up
Initialized == metadata # None

\* C26: in RSSFeedApp, whatever the order of the clicks, the filter changes
\* and the completions of their requests, once no request is in flight the
\* rendered items come from page currentPage and the pagination shows
\* currentPage
C26_DisplayedPageIsCurrent ==
    variant = "rss" /\ requests = << >> /\ rssItems # None =>
        /\ rssItems.from = currentPage
        /\ pagination # None => pagination.page = currentPage

\* the item passes the category filter and the search filter as they are now
MatchesFilters(item) ==
    /\ currentCategory = "all" \/ item.category = currentCategory
    /\ \/ searchQuery = ""
       \/ Contains(toLowerCase(item.title), searchQuery)
       \/ Contains(toLowerCase(item.description), searchQuery)
       \/ Contains(toLowerCase(item.feedName), searchQuery)

\* C27: in both clients, whenever a list of items is shown, every shown item
\* has the selected category (or the category is 'all') and holds the search
\* query in its title, its description or its feed name
C27_ShownItemsMatchFilters ==
    rssItems # None =>
        \A k \in 1..Len(rssItems.items) : MatchesFilters(rssItems.items[k])

\* the pages the site has, or page 1 when it has none
PagesOrFirst == 1..(IF metadata.totalPages < 1 THEN 1 ELSE metadata.totalPages)

PageInRange ==
    Initialized =>
        /\ currentPage \in PagesOrFirst
        /\ \A k \in 1..Len(requests) :
               requests[k].kind # "metadata" => requests[k].page \in PagesOrFirst

\* currentPage changes only when a request for the page it changes to
\* completes with the page file, and a step that shows an error leaves it
\* unchanged
PageStep ==
    /\ currentPage' # currentPage =>
           /\ \E k \in 1..Len(requests) :
                  /\ requests[k] = [kind |-> "page", page |-> currentPage']
                  /\ requests' = Splice(requests, k)
           /\ PageFileName(currentPage') \in DOMAIN dataDir
           /\ pagination'.page = currentPage'
    /\ errorText' # errorText /\ errorText' # "" => currentPage' = currentPage

MaxManagerFeeds == 3

\* an addFeed that does not look for the URL
addFeedUnchecked(list, name, url, category) ==
    [feeds |-> Append(list, [name |-> name, url |-> url,
                             category |-> category]),
     result |-> TRUE]

\* addFeed(name, url, category): the list after the call and what it returns
addFeed(list, name, url, category) ==
    IF \E k \in 1..Len(list) : list[k].url = url
    THEN [feeds |-> list, result |-> FALSE]
    ELSE [feeds |-> Append(list, [name |-> name, url |-> url,
                                  category |-> category]),
          result |-> TRUE]

\* a removeFeed that removes the last entry with the URL
removeFeedLast(list, url) ==
    IF \A k \in 1..Len(list) : list[k].url # url
    THEN [feeds |-> list, result |-> FALSE]
    ELSE [feeds |-> Splice(list, Greatest({ k \in 1..Len(list) :
                                              list[k].url = url })),
          result |-> TRUE]

\* removeFeed(url): findIndex gives the first entry with the URL
removeFeed(list, url) ==
    IF \A k \in 1..Len(list) : list[k].url # url
    THEN [feeds |-> list, result |-> FALSE]
    ELSE [feeds |-> Splice(list, Least({ k \in 1..Len(list) :
                                           list[k].url = url })),
          result |-> TRUE]

\* s.split(sep) for a separator of one character
RECURSIVE Split(_, _)
Split(s, sep) ==
    LET at == IndexOf(s, sep, 0)
    IN  IF at = 0 THEN << s >>
        ELSE << Substring(s, 0, at - 1) >> \o Split(SubstringFrom(s, at), sep)

\* part.trim().replace(/"/g, '')
Unquote(part) ==
    LET trimmed == Trim(part)
    IN  Join([k \in 1..Len(trimmed) |->
                 IF Chr(trimmed, k) = "\"" THEN "" ELSE Chr(trimmed, k)])

\* the loop of bulkAddFromCSV from lines[at] on (lines[0] is the header)
RECURSIVE AddLines(_, _, _, _)
AddLines(list, lines, at, added) ==
    IF at >= Len(lines) THEN [feeds |-> list, result |-> added]
    ELSE LET parts == Split(lines[at + 1], ",")
         IN  IF Len(parts) < 2 THEN AddLines(list, lines, at + 1, added)
             ELSE LET call == addFeed(list, Unquote(parts[1]),
                                      Unquote(parts[2]),
                                      IF Len(parts) >= 3 /\ parts[3] # ""
                                      THEN Unquote(parts[3]) ELSE "general")
                  IN  AddLines(call.feeds, lines, at + 1,
                               IF call.result THEN added + 1 ELSE added)

\* bulkAddFromCSV(csvContent); a result of NaN stands for the Error thrown
\* when the header lacks "name" or "url"
bulkAddFromCSV(list, csvContent) ==
    LET lines == Split(Trim(csvContent), "\n")
    IN  IF ~Contains(toLowerCase(lines[1]), "name")
            \/ ~Contains(toLowerCase(lines[1]), "url")
        THEN [feeds |-> list, result |-> NaN]
        ELSE AddLines(list, lines, 1, 0)

\* what managerCall keeps of a call: the call before it without its own past
Past(call) == IF call = None THEN None ELSE [call EXCEPT !.prev = None]

\* the URLs of the calls: two of config/feeds.json and one of the CSV files
ManagerUrls ==
    {FeedConfigs[1].url, FeedConfigs[2].url, "https://t.example/rss"}

\* manager.addFeed(name, url, category)
CallAddFeed ==
    \E url \in ManagerUrls :
        LET call == addFeed(managerFeeds, "News", url, "news")
        IN  /\ Len(call.feeds) <= MaxManagerFeeds
            /\ managerFeeds' = call.feeds
            /\ managerCall' = [op |-> "addFeed", url |-> url,
                               before |-> managerFeeds,
                               result |-> call.result,
                               prev |-> Past(managerCall)]
            /\ UNCHANGED <<buildVars, callVars, clientVars>>

\* manager.removeFeed(url)
CallRemoveFeed ==
    \E url \in ManagerUrls :
        /\ managerFeeds' = removeFeed(managerFeeds, url).feeds
        /\ managerCall' = [op |-> "removeFeed", url |-> url,
                           before |-> managerFeeds,
                           result |-> removeFeed(managerFeeds, url).result,
                           prev |-> Past(managerCall)]
        /\ UNCHANGED <<buildVars, callVars, clientVars>>

\* manager.bulkAddFromCSV(csvContent)
CallBulkAdd ==
    \E csvContent \in
           { "name,url,category\n\"News\",\"https://a.example/feed.rss\",\"news\"\n\"Tech\", \"https://t.example/rss\"\n",
             "Name,URL\nTech,https://t.example/rss\nTech,https://t.example/rss,\nno url",
             "title,link\nTech,https://t.example/rss" } :
        LET call == bulkAddFromCSV(managerFeeds, csvContent)
        IN  /\ Len(call.feeds) <= MaxManagerFeeds
            /\ managerFeeds' = call.feeds
            /\ managerCall' = [op |-> "bulkAddFromCSV", url |-> "",
                               before |-> managerFeeds,
                               result |-> call.result,
                               prev |-> Past(managerCall)]
            /\ UNCHANGED <<buildVars, callVars, clientVars>>

\* the calls on one FeedManager object; new FeedManager() takes the list of
\* config/feeds.json, which is edited by hand too and may name a URL twice,
\* or [] without the file
SpecManager ==
    /\ NoBuild({"indiv"},
               { << >>, SubSeq(FeedConfigs, 1, 2),
                 << FeedConfigs[1], FeedConfigs[2],
                    [FeedConfigs[3] EXCEPT !.url = FeedConfigs[1].url] >> })
    /\ [][CallAddFeed \/ CallRemoveFeed \/ CallBulkAdd]_vars

(***************************************************************************)
(* Properties of FeedManager                                               *)
(***************************************************************************)

DistinctUrls(list) ==
    \A j, k \in 1..Len(list) : j # k => list[j].url # list[k].url

\* bulkAddFromCSV has returned the number of entries the list grew by, or it
\* has thrown and left the list as it was
BulkReturnsGrowth ==
    managerCall # None /\ managerCall.op = "bulkAddFromCSV" =>
        IF managerCall.result = NaN THEN managerFeeds = managerCall.before
        ELSE managerCall.result = Len(managerFeeds) - Len(managerCall.before)

\* C29: a call of addFeed, removeFeed or bulkAddFromCSV on a list with
\* pairwise distinct URLs leaves a list with pairwise distinct URLs, so a
\* list that starts that way stays that way under any sequence of calls; and
\* bulkAddFromCSV returns exactly the number of entries the list grew by
C29_DistinctUrlsKept ==
    /\ [][DistinctUrls(managerFeeds) => DistinctUrls(managerFeeds')]_vars
    /\ []BulkReturnsGrowth

\* bulkAddFromCSV has added one row of a file and refused another, whose URL
\* the list had
C29_Witness ==
    /\ managerCall # None
    /\ managerCall.op = "bulkAddFromCSV"
    /\ managerCall.result = 1
    /\ managerCall.before = SubSeq(FeedConfigs, 1, 2)
    /\ Len(managerFeeds) = 3
    /\ DistinctUrls(managerFeeds)

\* the list has an entry with the URL
Present(list, url) == \E k \in 1..Len(list) : list[k].url = url

\* list without the first of its entries with the URL, the others in order
WithoutFirst(list, url) ==
    LET first == CHOOSE k \in 1..Len(list) :
                     /\ list[k].url = url
                     /\ \A j \in 1..(k - 1) : list[j].url # url
    IN  [k \in 1..(Len(list) - 1) |->
            IF k < first THEN list[k] ELSE list[k + 1]]

\* C30: addFeed with a URL of the list returns false and leaves the list
\* unchanged; removeFeed with a URL the list has not returns false and leaves
\* the list unchanged; removeFeed with a URL of the list returns true and
\* removes the first entry with that URL, keeping the others in order; so
\* removeFeed of the URL that the call before it added restores the list
C30_AddRemoveFrame ==
    managerCall # None =>
        /\ managerCall.op = "addFeed"
               /\ Present(managerCall.before, managerCall.url) =>
               managerCall.result = FALSE /\ managerFeeds = managerCall.before
        /\ managerCall.op = "removeFeed"
               /\ ~Present(managerCall.before, managerCall.url) =>
               managerCall.result = FALSE /\ managerFeeds = managerCall.before
        /\ managerCall.op = "removeFeed"
               /\ Present(managerCall.before, managerCall.url) =>
               /\ managerCall.result = TRUE
               /\ managerFeeds = WithoutFirst(managerCall.before,
                                              managerCall.url)
        /\ managerCall.op = "removeFeed" /\ managerCall.prev # None =>
               (managerCall.prev.op = "addFeed"
                    /\ managerCall.prev.result = TRUE
                    /\ managerCall.prev.url = managerCall.url =>
                    managerFeeds = managerCall.prev.before)

\* removeFeed has removed the entry that the addFeed before it added to a
\* list of two entries
C30_Witness ==
    /\ managerCall # None
    /\ managerCall.op = "removeFeed"
    /\ managerCall.result = TRUE
    /\ managerCall.prev # None
    /\ managerCall.prev.op = "addFeed"
    /\ managerCall.prev.result = TRUE
    /\ managerCall.prev.url = managerCall.url
    /\ Len(managerFeeds) = 2

====
